---- MODULE Spec2Model ----
(***************************************************************************)
(* Model of the resilient wallet wrapper of src/src/hooks/usePatchedWallet *)
(* (patchedSignAndSendTransaction: timeout race, rate-limit retry with     *)
(* exponential backoff, response-shape extraction; patchedSignMessage)     *)
(* and of the signature canonicalizer of src/src/utils/lazor-patch.        *)
(*                                                                         *)
(* JavaScript strings are sequences of one-character strings, so that      *)
(* toLowerCase, String.prototype.includes, JSON.stringify and the regular  *)
(* expression of the source are computed rather than assumed.              *)
(***************************************************************************)
EXTENDS Integers, Sequences, FiniteSets, TLC

VARIABLES
    pc,         \* "idle" | "racing" | "sleeping" | "done": position of the async function
    attempt,    \* loop variable of the for loop
    now,        \* clock of the event loop, in ms
    timerId,    \* the iteration's `timerId` (0 = undefined)
    timers,     \* pending setTimeout timers of the event loop
    nextTimer,  \* next handle setTimeout returns
    attempts,   \* one record per call of wallet.signAndSendTransaction
    sleeps,     \* one record per call of sleep(delay)
    lastError,  \* `lastError`
    outcome,    \* what the caller of patchedSignAndSendTransaction has observed
    heap,       \* canonicalizer: contents of the live Uint8Arrays, by reference
    refs,       \* canonicalizer: the references normalizeSignature returned
    input,      \* canonicalizer: the Uint8Array a caller holds
    normalized, \* canonicalizer: results of successive normalizeSignature calls
    verdicts,   \* canonicalizer: results of the isHighS / isValidLowS calls
    msgPc,      \* "idle" | "awaiting" | "done": position of patchedSignMessage
    msgText,    \* the message patchedSignMessage was called with
    signCalls,  \* the calls of wallet.signMessage, in order
    remote,     \* how wallet.signMessage settled
    msgOutcome, \* what the caller of patchedSignMessage has observed
    variant,    \* which patchedSignMessage is mounted: "hooks" | "part_009"
    isMounted,        \* useSolanaBalance: isMounted.current
    hookProps,        \* useSolanaBalance: publicKey and the memoized config of the last render
    closures,         \* useSolanaBalance: the props each run of the refresh effect captured
    refreshTimerRef,  \* useSolanaBalance: refreshTimerRef.current (0 = undefined)
    retryTimeoutRef,  \* useSolanaBalance: retryTimeoutRef.current (0 = undefined)
    balanceTimers,    \* useSolanaBalance: pending setTimeout timers
    fetches,          \* useSolanaBalance: fetchBalance calls that have not returned
    balanceState,     \* useSolanaBalance: the React state
    lastWrite,        \* useSolanaBalance: the latest setState of a fetched balance
    nextHandle        \* useSolanaBalance: next timer handle / call number

walletVars ==
    <<pc, attempt, now, timerId, timers, nextTimer, attempts, sleeps, lastError, outcome>>

canonicalizerVars == <<heap, refs, input, normalized, verdicts>>

messageVars == <<msgPc, msgText, signCalls, remote, msgOutcome, variant>>

balanceVars ==
    <<isMounted, hookProps, closures, refreshTimerRef, retryTimeoutRef, balanceTimers, fetches,
      balanceState, lastWrite, nextHandle>>

vars == <<walletVars, canonicalizerVars, messageVars, balanceVars>>

---------------------------------------------------------------------------
\* Program constants (usePatchedWallet.ts:89-91, 126).

MAX_RETRIES == 3

BASE_DELAY_MS == 2000

TIMEOUT_MS == 90000

SIG_MIN_LEN == 87

SIG_MAX_LEN == 88

\* Bound of the model: the largest amount of time one Advance step lets pass.
TimeStep == 30000

---------------------------------------------------------------------------
\* Strings.

UPPER ==
    <<"A", "B", "C", "D", "E", "F", "G", "H", "I", "J", "K", "L", "M", "N", "O", "P",
      "Q", "R", "S", "T", "U", "V", "W", "X", "Y", "Z">>

LOWER ==
    <<"a", "b", "c", "d", "e", "f", "g", "h", "i", "j", "k", "l", "m", "n", "o", "p",
      "q", "r", "s", "t", "u", "v", "w", "x", "y", "z">>

DIGITS19 ==
    <<"1", "2", "3", "4", "5", "6", "7", "8", "9">>

Range(seq) == { seq[i] : i \in 1..Len(seq) }

\* String.prototype.toLowerCase
toLowerCase(s) ==
    [i \in 1..Len(s) |->
        IF \E k \in 1..26 : UPPER[k] = s[i]
        THEN LOWER[CHOOSE k \in 1..26 : UPPER[k] = s[i]]
        ELSE s[i]]

\* String.prototype.includes
includes(s, sub) ==
    \E i \in 0..(Len(s) - Len(sub)) : \A j \in 1..Len(sub) : s[i + j] = sub[j]

\* The character class [1-9A-HJ-NP-Za-km-z] of the regular expression.
Base58 == (Range(DIGITS19) \cup Range(UPPER) \cup Range(LOWER)) \ {"I", "O", "l"}

Rep(c, n) == [i \in 1..n |-> c]

\* str.match(/[1-9A-HJ-NP-Za-km-z]{87,88}/): the leftmost match, greedy.
\* <<>> stands for null (no match).
RegexStarts(str) ==
    { i \in 1..(Len(str) - SIG_MIN_LEN + 1) :
        \A j \in i..(i + SIG_MIN_LEN - 1) : str[j] \in Base58 }

RegexMatchLen(str, i) ==
    CHOOSE n \in SIG_MIN_LEN..SIG_MAX_LEN :
        /\ i + n - 1 <= Len(str)
        /\ \A j \in i..(i + n - 1) : str[j] \in Base58
        /\ \/ n = SIG_MAX_LEN
           \/ i + n > Len(str)
           \/ str[i + n] \notin Base58

match(str) ==
    IF RegexStarts(str) = {} THEN <<>>
    ELSE LET i == CHOOSE k \in RegexStarts(str) : \A m \in RegexStarts(str) : k <= m
         IN SubSeq(str, i, i + RegexMatchLen(str, i) - 1)

---------------------------------------------------------------------------
\* JavaScript values.  t is the kind of value; s its text (the content of a
\* string, the decimal text of a number, the message of an Error); f the
\* own enumerable properties of an object or the elements of an array, in
\* order; id tells objects apart: the place that created the object
\* ("op": the wallet SDK; "L101" etc.: `new Error` at that source line).

JsString(s) == [t |-> "string", s |-> s, f |-> <<>>, id |-> ""]

JsNumber(s) == [t |-> "number", s |-> s, f |-> <<>>, id |-> ""]

JsUndefined == [t |-> "undefined", s |-> <<>>, f |-> <<>>, id |-> ""]

JsNull == [t |-> "null", s |-> <<>>, f |-> <<>>, id |-> ""]

JsTrue == [t |-> "boolean", s |-> <<"t", "r", "u", "e">>, f |-> <<>>, id |-> ""]

Prop(k, v) == [k |-> k, v |-> v]

JsObject(props) == [t |-> "object", s |-> <<>>, f |-> props, id |-> "op"]

JsArray(elems) ==
    [t |-> "array", s |-> <<>>, f |-> [i \in 1..Len(elems) |-> Prop(<<>>, elems[i])],
     id |-> "op"]

\* new Error(message) evaluated at source line `site`
NewError(message, site) == [t |-> "Error", s |-> message, f |-> <<>>, id |-> site]

\* typeof v
typeof(v) ==
    CASE v.t = "string" -> <<"s", "t", "r", "i", "n", "g">>
      [] v.t = "number" -> <<"n", "u", "m", "b", "e", "r">>
      [] v.t = "undefined" -> <<"u", "n", "d", "e", "f", "i", "n", "e", "d">>
      [] v.t = "boolean" -> <<"b", "o", "o", "l", "e", "a", "n">>
      [] OTHER -> <<"o", "b", "j", "e", "c", "t">>

\* key in obj (own properties only; arrays have index keys and `length`)
HasProp(obj, key) == obj.t = "object" /\ \E i \in 1..Len(obj.f) : obj.f[i].k = key

\* obj[key] of a property that exists
GetProp(obj, key) == obj.f[CHOOSE i \in 1..Len(obj.f) : obj.f[i].k = key].v

\* Array.isArray(v)
isArray(v) == v.t = "array"

RECURSIVE Join(_, _)
\* parts joined by the separator
Join(parts, sep) ==
    IF Len(parts) = 0 THEN <<>>
    ELSE IF Len(parts) = 1 THEN parts[1]
    ELSE parts[1] \o sep \o Join(Tail(parts), sep)

RECURSIVE stringify(_)
\* JSON.stringify(v) of a value that has a serialization (no character of
\* the strings modelled here needs escaping); an undefined property is
\* left out, an undefined array element is written null, the message of an
\* Error is not enumerable.
stringify(v) ==
    CASE v.t = "string" -> <<"\"">> \o v.s \o <<"\"">>
      [] v.t = "number" -> v.s
      [] v.t = "boolean" -> v.s
      [] v.t = "null" -> <<"n", "u", "l", "l">>
      [] v.t = "array" ->
            <<"[">> \o
            Join([i \in 1..Len(v.f) |->
                    IF v.f[i].v.t = "undefined" THEN <<"n", "u", "l", "l">>
                    ELSE stringify(v.f[i].v)], <<",">>)
            \o <<"]">>
      [] OTHER ->
            LET kept == SelectSeq(v.f, LAMBDA p : p.v.t # "undefined")
            IN <<"{">> \o
               Join([i \in 1..Len(kept) |->
                       <<"\"">> \o kept[i].k \o <<"\"", ":">> \o stringify(kept[i].v)],
                    <<",">>)
               \o <<"}">>

RECURSIVE String(_)
\* String(v)
String(v) ==
    CASE v.t \in {"string", "number", "boolean"} -> v.s
      [] v.t = "undefined" -> <<"u", "n", "d", "e", "f", "i", "n", "e", "d">>
      [] v.t = "null" -> <<"n", "u", "l", "l">>
      [] v.t = "Error" -> <<"E", "r", "r", "o", "r", ":", " ">> \o v.s
      [] v.t = "array" ->
            Join([i \in 1..Len(v.f) |->
                    IF v.f[i].v.t \in {"undefined", "null"} THEN <<>>
                    ELSE String(v.f[i].v)], <<",">>)
      [] OTHER -> <<"[", "o", "b", "j", "e", "c", "t", " ", "O", "b", "j", "e", "c",
                    "t", "]">>

---------------------------------------------------------------------------
\* The wrapper's pure steps.

\* is429Error(error)
is429Error_WithTimeout(error) ==
    IF error.t = "Error"
    THEN LET msg == toLowerCase(error.s)
         IN \/ includes(msg, <<"4", "2", "9">>)
            \/ includes(msg, <<"r", "a", "t", "e", " ", "l", "i", "m", "i", "t">>)
            \/ includes(msg, <<"t", "o", "o", " ", "m", "a", "n", "y", " ", "r", "e",
                               "q", "u", "e", "s", "t", "s">>)
            \/ includes(msg, <<"t", "h", "r", "o", "t", "t", "l">>)
            \/ includes(msg, <<"t", "i", "m", "e", "d", " ", "o", "u", "t">>)
    ELSE FALSE

is429Error_ThreeMarkers(error) ==
    IF error.t = "Error"
    THEN LET msg == toLowerCase(error.s)
         IN \/ includes(msg, <<"4", "2", "9">>)
            \/ includes(msg, <<"r", "a", "t", "e", " ", "l", "i", "m", "i", "t">>)
            \/ includes(msg, <<"t", "h", "r", "o", "t", "t", "l">>)
    ELSE FALSE

is429Error_AnyValue(error) ==
    LET msg == toLowerCase(IF error.t = "Error" THEN error.s ELSE String(error))
    IN \/ includes(msg, <<"4", "2", "9">>)
       \/ includes(msg, <<"r", "a", "t", "e", " ", "l", "i", "m", "i", "t">>)
       \/ includes(msg, <<"t", "o", "o", " ", "m", "a", "n", "y", " ", "r", "e", "q",
                          "u", "e", "s", "t", "s">>)
       \/ includes(msg, <<"t", "h", "r", "o", "t", "t", "l">>)

is429Error(error) ==
    IF error.t = "Error"
    THEN LET msg == toLowerCase(error.s)
         IN \/ includes(msg, <<"4", "2", "9">>)
            \/ includes(msg, <<"r", "a", "t", "e", " ", "l", "i", "m", "i", "t">>)
            \/ includes(msg, <<"t", "o", "o", " ", "m", "a", "n", "y", " ", "r", "e",
                               "q", "u", "e", "s", "t", "s">>)
            \/ includes(msg, <<"t", "h", "r", "o", "t", "t", "l">>)
    ELSE FALSE

\* The Error the timeout timer rejects with (line 101).
TimeoutError ==
    NewError(<<"T", "r", "a", "n", "s", "a", "c", "t", "i", "o", "n", " ", "t", "i",
               "m", "e", "d", " ", "o", "u", "t", ".", " ", "C", "h", "e", "c", "k",
               " ", "S", "o", "l", "a", "n", "a", " ", "E", "x", "p", "l", "o", "r",
               "e", "r", " ", "f", "o", "r", " ", "s", "t", "a", "t", "u", "s", ".">>, "L101")

\* Lines 125-131: the last resort, a token found in the JSON text.
ExtractFallback_Lenient(result) ==
    LET m == match(stringify(result))
    IN [threw |-> FALSE, v |-> JsString(IF m # <<>> THEN m ELSE stringify(result))]

ExtractFallback(result) ==
    LET m == match(stringify(result))
    IN IF m # <<>>
       THEN [threw |-> FALSE, v |-> JsString(m)]
       ELSE [threw |-> TRUE,
             v |-> NewError(<<"C", "o", "u", "l", "d", " ", "n", "o", "t", " ", "e",
                              "x", "t", "r", "a", "c", "t", " ", "s", "i", "g", "n",
                              "a", "t", "u", "r", "e", " ", "f", "r", "o", "m", " ",
                              "r", "e", "s", "u", "l", "t">>, "L130")]

\* Lines 118-132: the signature taken from a non-null object.
ExtractFromObject_ListFirst(obj) ==
    IF HasProp(obj, <<"s", "i", "g", "n", "a", "t", "u", "r", "e", "s">>)
       /\ isArray(GetProp(obj, <<"s", "i", "g", "n", "a", "t", "u", "r", "e", "s">>))
       /\ Len(GetProp(obj, <<"s", "i", "g", "n", "a", "t", "u", "r", "e", "s">>).f) > 0
    THEN LET sigs == GetProp(obj, <<"s", "i", "g", "n", "a", "t", "u", "r", "e", "s">>).f
         IN [threw |-> FALSE, v |-> sigs[Len(sigs)].v]
    ELSE IF HasProp(obj, <<"s", "i", "g", "n", "a", "t", "u", "r", "e">>)
            /\ GetProp(obj, <<"s", "i", "g", "n", "a", "t", "u", "r", "e">>).t = "string"
    THEN [threw |-> FALSE, v |-> GetProp(obj, <<"s", "i", "g", "n", "a", "t", "u",
                                                "r", "e">>)]
    ELSE ExtractFallback(obj)

ExtractFromObject(obj) ==
    IF HasProp(obj, <<"s", "i", "g", "n", "a", "t", "u", "r", "e">>)
       /\ GetProp(obj, <<"s", "i", "g", "n", "a", "t", "u", "r", "e">>).t = "string"
    THEN [threw |-> FALSE, v |-> GetProp(obj, <<"s", "i", "g", "n", "a", "t", "u",
                                                "r", "e">>)]
    ELSE IF HasProp(obj, <<"s", "i", "g", "n", "a", "t", "u", "r", "e", "s">>)
            /\ isArray(GetProp(obj, <<"s", "i", "g", "n", "a", "t", "u", "r", "e", "s">>))
            /\ Len(GetProp(obj, <<"s", "i", "g", "n", "a", "t", "u", "r", "e", "s">>).f) > 0
    THEN LET sigs == GetProp(obj, <<"s", "i", "g", "n", "a", "t", "u", "r", "e", "s">>).f
         IN [threw |-> FALSE, v |-> sigs[Len(sigs)].v]
    ELSE ExtractFallback(obj)

\* Lines 113-137: the signature taken from the resolved value, or the Error
\* thrown inside the try block.
ExtractSignature(result) ==
    IF result.t = "string"
    THEN [threw |-> FALSE, v |-> result]
    ELSE IF result.t \in {"object", "array", "Error"}
    THEN ExtractFromObject(result)
    ELSE [threw |-> TRUE,
          v |-> NewError(<<"U", "n", "e", "x", "p", "e", "c", "t", "e", "d", " ", "r",
                           "e", "s", "u", "l", "t", " ", "t", "y", "p", "e", ":", " ">> \o typeof(result), "L134")]

\* Line 141: lastError = error instanceof Error ? error : new Error(String(error))
AsError(error) == IF error.t = "Error" THEN error ELSE NewError(String(error), "L141")

\* Line 146: the retry guard of the catch block.
ShouldRetry_AnyError(error, n) == n < MAX_RETRIES

ShouldRetry_Inclusive(error, n) == is429Error(error) /\ n <= MAX_RETRIES

ShouldRetry_UnlessTimeout(error, n) == error.id # "L101" /\ n < MAX_RETRIES

ShouldRetry(error, n) == is429Error(error) /\ n < MAX_RETRIES

\* Line 153: the break guard of the catch block.
ShouldBreak_Never(error) == FALSE

ShouldBreak(error) == ~is429Error(error)

RECURSIVE Pow2(_)
\* Math.pow(2, k)
Pow2(k) == IF k = 0 THEN 1 ELSE 2 * Pow2(k - 1)

\* Line 147: the backoff delay after attempt n
BackoffDelay_ExponentOff(n) == BASE_DELAY_MS * Pow2(n)

BackoffDelay_Capped(n) ==
    IF BASE_DELAY_MS * Pow2(n - 1) > 3000 THEN 3000 ELSE BASE_DELAY_MS * Pow2(n - 1)

BackoffDelay_Constant(n) == BASE_DELAY_MS

BackoffDelay(n) == BASE_DELAY_MS * Pow2(n - 1)

\* Lines 160-170: what is thrown once the loop is left.
FinalError(last) ==
    LET errorMessage ==
            IF last.t = "Error" /\ last.s # <<>> THEN last.s
            ELSE <<"T", "r", "a", "n", "s", "a", "c", "t", "i", "o", "n", " ", "f",
                   "a", "i", "l", "e", "d", " ", "a", "f", "t", "e", "r", " ", "a",
                   "l", "l", " ", "r", "e", "t", "r", "i", "e", "s">>
    IN IF is429Error(last)
       THEN NewError(
              <<"L", "a", "z", "o", "r", "K", "i", "t", " ", "p", "a", "y", "m", "a",
                "s", "t", "e", "r", " ", "i", "s", " ", "r", "a", "t", "e", " ", "l",
                "i", "m", "i", "t", "i", "n", "g", " ", "r", "e", "q", "u", "e", "s",
                "t", "s", " ", "(", "4", "2", "9", ")", ".", " ", "T", "h", "i", "s",
                " ", "i", "s", " ", "a", " ", "t", "e", "m", "p", "o", "r", "a", "r",
                "y", " ", "i", "n", "f", "r", "a", "s", "t", "r", "u", "c", "t", "u",
                "r", "e", " ", "i", "s", "s", "u", "e", ".", " ", "P", "l", "e", "a",
                "s", "e", " ", "w", "a", "i", "t", " ", "3", "0", "-", "6", "0", " ",
                "s", "e", "c", "o", "n", "d", "s", " ", "a", "n", "d", " ", "t", "r",
                "y", " ", "a", "g", "a", "i", "n", ".", " ", "O", "r", "i", "g", "i",
                "n", "a", "l", " ", "e", "r", "r", "o", "r", ":", " ">>
              \o errorMessage, "L163")
       ELSE IF last.t = "Error" THEN last
       ELSE NewError(errorMessage, "L170")

---------------------------------------------------------------------------
\* What the wallet SDK may answer.

Sig88a == Rep("a", 88)

Sig88b == Rep("b", 88)

Sig87 == Rep("5", 87)

ShortSig ==
    <<"s", "i", "g", "1", "2", "3">>

\* Values wallet.signAndSendTransaction may resolve with.
Results ==
    { JsString(ShortSig),
      JsString(Sig88a),
      JsObject(<<Prop(<<"s", "i", "g", "n", "a", "t", "u", "r", "e">>, JsString(Sig88a))>>),
      JsObject(<<Prop(<<"s", "i", "g", "n", "a", "t", "u", "r", "e", "s">>, JsArray(<<JsString(Sig88a), JsString(Sig88b)>>)),
                 Prop(<<"s", "i", "g", "n", "a", "t", "u", "r", "e">>, JsString(ShortSig))>>),
      JsObject(<<Prop(<<"s", "i", "g", "n", "a", "t", "u", "r", "e", "s">>, JsArray(<<JsString(Sig88a), JsString(Sig88b)>>))>>),
      JsObject(<<Prop(<<"s", "i", "g", "n", "a", "t", "u", "r", "e">>, JsNumber(<<"7">>)),
                 Prop(<<"s", "i", "g", "n", "a", "t", "u", "r", "e", "s">>, JsArray(<<JsString(Sig88b), JsString(ShortSig)>>))>>),
      JsObject(<<Prop(<<"s", "i", "g", "n", "a", "t", "u", "r", "e", "s">>, JsArray(<<JsString(Sig88a), JsNumber(<<"4", "2">>)>>))>>),
      JsObject(<<Prop(<<"s", "i", "g", "n", "a", "t", "u", "r", "e", "s">>, JsArray(<<>>)),
                 Prop(<<"d", "a", "t", "a">>, JsObject(<<Prop(<<"t", "x", "i", "d">>, JsString(Sig87))>>))>>),
      JsObject(<<Prop(<<"d", "a", "t", "a">>, JsString(Sig88b \o <<"b", "b", "0">> \o Sig88a)),
                 Prop(<<"s", "i", "g", "n", "a", "t", "u", "r", "e">>, JsNull),
                 Prop(<<"s", "i", "g", "n", "a", "t", "u", "r", "e", "s">>, JsString(Sig88a))>>),
      JsObject(<<Prop(<<"f", "o", "o">>, JsNumber(<<"1", "2", "3">>))>>),
      JsObject(<<Prop(<<"d", "a", "t", "a">>, JsString(Rep("a", 86) \o <<"0">> \o Rep("b", 86)))>>),
      JsArray(<<JsString(Sig88a)>>),
      JsArray(<<>>),
      JsNull,
      JsUndefined,
      JsNumber(<<"4", "2", "9">>),
      JsTrue }

\* Values wallet.signAndSendTransaction may reject with.
Rejections ==
    { [t |-> "Error", s |-> <<"4", "2", "9", " ", "T", "o", "o", " ", "M", "a", "n",
                              "y", " ", "R", "e", "q", "u", "e", "s", "t", "s">>, f |-> <<>>, id |-> "op"],
      [t |-> "Error", s |-> <<"R", "a", "t", "e", " ", "L", "i", "m", "i", "t", " ",
                              "e", "x", "c", "e", "e", "d", "e", "d">>, f |-> <<>>, id |-> "op"],
      [t |-> "Error", s |-> <<"R", "e", "q", "u", "e", "s", "t", " ", "T", "H", "R",
                              "O", "T", "T", "L", "E", "D", " ", "b", "y", " ", "p",
                              "a", "y", "m", "a", "s", "t", "e", "r">>, f |-> <<>>, id |-> "op"],
      [t |-> "Error", s |-> <<"N", "e", "t", "w", "o", "r", "k", " ", "r", "e", "q",
                              "u", "e", "s", "t", " ", "f", "a", "i", "l", "e", "d">>, f |-> <<>>, id |-> "op"],
      [t |-> "Error", s |-> <<>>, f |-> <<>>, id |-> "op"],
      [t |-> "Error", s |-> <<"T", "o", "o", " ", "M", "a", "n", "y", " ", "R", "e",
                              "q", "u", "e", "s", "t", "s", ",", " ", "s", "l", "o",
                              "w", " ", "d", "o", "w", "n">>, f |-> <<>>, id |-> "op"],
      JsObject(<<Prop(<<"m", "e", "s", "s", "a", "g", "e">>, JsString(<<"4", "2", "9", " ", "T", "o", "o", " ",
                                              "M", "a", "n", "y", " ", "R", "e", "q",
                                              "u", "e", "s", "t", "s">>))>>),
      JsString(<<"4", "2", "9", " ", "T", "o", "o", " ", "M", "a", "n", "y", " ", "R",
                 "e", "q", "u", "e", "s", "t", "s">>),
      JsString(<<"U", "s", "e", "r", " ", "r", "e", "j", "e", "c", "t", "e", "d">>),
      JsNumber(<<"4", "2", "9">>),
      JsObject(<<Prop(<<"s", "t", "a", "t", "u", "s">>, JsNumber(<<"4", "2", "9">>))>>),
      JsUndefined }

---------------------------------------------------------------------------
\* The signature canonicalizer of src/src/utils/lazor-patch.ts.
\*
\* A Uint8Array is a sequence of numbers 0..255.  A BigInt is a sign and a
\* magnitude, the magnitude written in base 256, most significant digit
\* first, with no leading zero (<<>> is zero), so that the arithmetic of the
\* source is computed on numbers of any size.

HEXDIGITS ==
    <<"0", "1", "2", "3", "4", "5", "6", "7", "8", "9", "A", "B", "C", "D", "E", "F">>

HexValue(c) == (CHOOSE k \in 1..16 : HEXDIGITS[k] = c) - 1

\* the digits without their leading zeros
StripZeros(digits) ==
    LET significant == {i \in 1..Len(digits) : digits[i] # 0}
    IN IF significant = {} THEN <<>>
       ELSE SubSeq(digits, CHOOSE i \in significant : \A j \in significant : i <= j,
                   Len(digits))

BigNat(digits) == [neg |-> FALSE, mag |-> StripZeros(digits)]

\* BigInt(k) of a number 0 <= k < 256
BigInt(k) == BigNat(<<k>>)

\* BigInt('0x...') of an even number of hexadecimal digits
BigIntFromHex(h) ==
    BigNat([i \in 1..(Len(h) \div 2) |-> 16 * HexValue(h[2 * i - 1]) + HexValue(h[2 * i])])

\* a > b of two magnitudes
MagGreater(a, b) ==
    \/ Len(a) > Len(b)
    \/ /\ Len(a) = Len(b)
       /\ \E i \in 1..Len(a) : a[i] > b[i] /\ \A j \in 1..(i - 1) : a[j] = b[j]

\* x > y
BigGreater(x, y) ==
    IF x.neg /\ y.neg THEN MagGreater(y.mag, x.mag)
    ELSE IF x.neg THEN FALSE
    ELSE IF y.neg THEN y.mag # <<>> \/ x.mag # <<>>
    ELSE MagGreater(x.mag, y.mag)

\* x <= y
BigLessEq(x, y) == ~BigGreater(x, y)

PadLeft(digits, n) == Rep(0, n - Len(digits)) \o digits

\* what digit i of a - b borrows: 1 when the digits after i of a are less than those of b
Borrow(a, b, i) ==
    IF \E k \in (i + 1)..Len(a) : a[k] < b[k] /\ \A j \in (i + 1)..(k - 1) : a[j] = b[j]
    THEN 1 ELSE 0

\* the digits of a - b, for two digit strings of one length and a >= b
SubDigits(a, b) == [i \in 1..Len(a) |-> (a[i] - b[i] - Borrow(a, b, i) + 256) % 256]

MagSub(a, b) == StripZeros(SubDigits(a, PadLeft(b, Len(a))))

\* x - y of two BigInts that are not negative
BigSub(x, y) ==
    IF MagGreater(y.mag, x.mag)
    THEN [neg |-> TRUE, mag |-> MagSub(y.mag, x.mag)]
    ELSE [neg |-> FALSE, mag |-> MagSub(x.mag, y.mag)]

RECURSIVE DivDigits(_, _, _, _)
\* the digits i.. of the quotient of a by a small divisor, long division
DivDigits(a, d, i, rem) ==
    IF i > Len(a) THEN <<>>
    ELSE LET c == rem * 256 + a[i]
         IN <<c \div d>> \o DivDigits(a, d, i + 1, c % d)

\* x / BigInt(d) of a BigInt that is not negative (the quotient is truncated)
BigDiv(x, d) == BigNat(DivDigits(x.mag, d, 1, 0))

\* magnitude + 1: the digits after the last one that is not 255 become 0
MagInc(a) ==
    LET free == {i \in 1..Len(a) : a[i] # 255}
        last == CHOOSE i \in free : \A j \in free : j <= i
    IN IF free = {} THEN <<1>> \o Rep(0, Len(a))
       ELSE [i \in 1..Len(a) |-> IF i < last THEN a[i] ELSE IF i = last THEN a[i] + 1 ELSE 0]

\* Number(x & BigInt(0xff)): the low byte of the two's complement of x
LowByte(x) ==
    LET low == IF Len(x.mag) = 0 THEN 0 ELSE x.mag[Len(x.mag)]
    IN IF x.neg THEN (256 - low) % 256 ELSE low

\* x >> BigInt(8) applied k times (`remaining` after k iterations of the loop of
\* lines 57-60): the arithmetic shift drops k digits and rounds down, so a
\* negative value moves away from zero when a dropped digit is not 0
ShiftRight8(x, k) ==
    LET kept == IF Len(x.mag) <= k THEN <<>> ELSE SubSeq(x.mag, 1, Len(x.mag) - k)
        exact == \A i \in 1..Len(x.mag) : i > Len(x.mag) - k => x.mag[i] = 0
    IN IF x.neg /\ ~exact THEN [neg |-> TRUE, mag |-> MagInc(kept)]
       ELSE [neg |-> x.neg /\ kept # <<>>, mag |-> kept]

\* `result` after the first k iterations of the loop of lines 45-47: an
\* iteration moves the digits up one place and puts the byte in the last one
ResultAfter(bytes, k) == BigNat(SubSeq(bytes, 1, k))

\* bytesToBigInt(bytes)
bytesToBigInt(bytes) == ResultAfter(bytes, Len(bytes))

\* the loop of lines 57-60: the bytes it writes, in the order it writes them
\* (the first one goes to index length - 1, the last one to index 0)
ByteWrites(value, count) == [k \in 1..count |-> LowByte(ShiftRight8(value, k - 1))]

\* the same loop filling the array from index 0 up: the least significant byte first
bigIntToBytes_LittleEndian(value, length) == ByteWrites(value, length)

\* bigIntToBytes(value, length)
bigIntToBytes(value, length) ==
    LET writes == ByteWrites(value, length)
    IN [i \in 1..length |-> writes[length + 1 - i]]

CURVE_ORDER ==
    BigIntFromHex(<<"F", "F", "F", "F", "F", "F", "F", "F", "0", "0", "0", "0", "0",
                    "0", "0", "0", "F", "F", "F", "F", "F", "F", "F", "F", "F", "F",
                    "F", "F", "F", "F", "F", "F", "B", "C", "E", "6", "F", "A", "A",
                    "D", "A", "7", "1", "7", "9", "E", "8", "4", "F", "3", "B", "9",
                    "C", "A", "C", "2", "F", "C", "6", "3", "2", "5", "5", "1">>)

HALF_CURVE_ORDER == BigDiv(CURVE_ORDER, 2)

\* new Uint8Array(length)
Uint8ArrayNew(length) == Rep(0, length)

\* array.slice(from, to)
slice(array, from, to) ==
    SubSeq(array, from + 1, IF to < Len(array) THEN to ELSE Len(array))

\* array.set(source, offset), the resulting contents of array
TypedArraySet(array, source, offset) ==
    [i \in 1..Len(array) |->
        IF i > offset /\ i <= offset + Len(source) THEN source[i - offset] ELSE array[i]]

\* Line 88: the length guard
WrongLength_Short(signature) == Len(signature) < 64

WrongLength(signature) == Len(signature) # 64

\* Lines 103, 134: s is "High"
IsHigh_Inclusive(sBigInt) == ~BigGreater(HALF_CURVE_ORDER, sBigInt)

IsHigh(sBigInt) == BigGreater(sBigInt, HALF_CURVE_ORDER)

\* Line 105: lowS = CURVE_ORDER - s
LowS_Swapped(sBigInt) == BigSub(sBigInt, CURVE_ORDER)

LowS(sBigInt) == BigSub(CURVE_ORDER, sBigInt)

\* Lines 114-117: r || lowS in a new array
Assemble_WrongOffset(r, lowSBytes) ==
    TypedArraySet(TypedArraySet(Uint8ArrayNew(64), r, 32), lowSBytes, 32)

Assemble(r, lowSBytes) ==
    TypedArraySet(TypedArraySet(Uint8ArrayNew(64), r, 0), lowSBytes, 32)

\* normalizeSignature(signature)
normalizeSignature(signature) ==
    IF WrongLength(signature) THEN signature
    ELSE LET r == slice(signature, 0, 32)
             s == slice(signature, 32, 64)
             sBigInt == bytesToBigInt(s)
         IN IF IsHigh(sBigInt)
            THEN Assemble(r, bigIntToBytes(LowS(sBigInt), 32))
            ELSE signature

\* isHighS(signature)
isHighS_AboveOrder(signature) ==
    IF Len(signature) # 64 THEN FALSE
    ELSE BigGreater(bytesToBigInt(slice(signature, 32, 64)), CURVE_ORDER)

isHighS(signature) ==
    IF Len(signature) # 64 THEN FALSE
    ELSE IsHigh(bytesToBigInt(slice(signature, 32, 64)))

\* isValidLowS(signature)
isValidLowS_AllowsZero(signature) ==
    IF Len(signature) # 64 THEN FALSE
    ELSE BigLessEq(bytesToBigInt(slice(signature, 32, 64)), HALF_CURVE_ORDER)

isValidLowS(signature) ==
    IF Len(signature) # 64 THEN FALSE
    ELSE LET sBigInt == bytesToBigInt(slice(signature, 32, 64))
         IN BigGreater(sBigInt, BigInt(0)) /\ BigLessEq(sBigInt, HALF_CURVE_ORDER)

---------------------------------------------------------------------------
\* State machine of one invocation of patchedSignAndSendTransaction.

Pending == [kind |-> "pending", v |-> JsUndefined, at |-> 0]

\* No canonicalizer call was made.
CanonicalizerIdle ==
    /\ heap = <<>>
    /\ refs = <<>>
    /\ input = <<>>
    /\ normalized = <<>>
    /\ verdicts = {}

\* patchedSignMessage was not called.
MessageIdle ==
    /\ msgPc = "idle"
    /\ msgText = <<>>
    /\ signCalls = <<>>
    /\ remote = [state |-> "pending", v |-> JsUndefined]
    /\ msgOutcome = [kind |-> "pending", v |-> JsUndefined]
    /\ variant = "hooks"

\* No useSolanaBalance instance is mounted.
NoKey == "null"

InitialState == [sol |-> 0, isLoading |-> FALSE, error |-> "null", lastUpdated |-> "null"]

BalanceIdle ==
    /\ isMounted = FALSE
    /\ hookProps = [publicKey |-> NoKey, autoRefresh |-> FALSE, refreshInterval |-> 0,
                maxRetries |-> 0]
    /\ closures = <<>>
    /\ refreshTimerRef = 0
    /\ retryTimeoutRef = 0
    /\ balanceTimers = {}
    /\ fetches = {}
    /\ balanceState = InitialState
    /\ lastWrite = [fetchedFor |-> NoKey, publicKey |-> NoKey, chained |-> FALSE]
    /\ nextHandle = 1

WalletIdle ==
    /\ pc = "idle"
    /\ attempt = 0
    /\ now = 0
    /\ timerId = 0
    /\ timers = {}
    /\ nextTimer = 1
    /\ attempts = <<>>
    /\ sleeps = <<>>
    /\ lastError = JsNull
    /\ outcome = Pending

Init ==
    /\ WalletIdle
    /\ CanonicalizerIdle
    /\ MessageIdle
    /\ BalanceIdle

\* The call of the wrapped operation that the current iteration races.
cur == Len(attempts)

\* setTimeout(callback, ms) called at time `now` by iteration n
SetTimeout(kind, ms, n) == [id |-> nextTimer, kind |-> kind, due |-> now + ms, att |-> n]

\* clearTimeout(id)
ClearTimeout(ts, id) == { t \in ts : t.id # id }

\* Line 110: if (timerId) clearTimeout(timerId), after the race resolved
ClearAfterRace(ts, id) == IF id # 0 THEN ClearTimeout(ts, id) ELSE ts

\* Line 140: if (timerId) clearTimeout(timerId), first statement of the catch block
ClearInCatch_Omitted(ts, id) == ts

ClearInCatch(ts, id) == IF id # 0 THEN ClearTimeout(ts, id) ELSE ts

\* Lines 96-108: one iteration's start: the timeout timer is set, the wrapped
\* operation is called, and the function awaits the race of the two.
StartAttempt(n, ts, atts) ==
    /\ attempt' = n
    /\ timerId' = nextTimer
    /\ nextTimer' = nextTimer + 1
    /\ timers' = ts \cup {SetTimeout("timeout", TIMEOUT_MS, n)}
    /\ attempts' = Append(atts, [start |-> now, race |-> "pending", raceAt |-> 0,
                                 op |-> "pending", v |-> JsUndefined])
    /\ pc' = "racing"

\* Lines 159-170: the loop is left and the function throws.
ExitLoop(last, ts, atts) ==
    /\ pc' = "done"
    /\ outcome' = [kind |-> "threw", v |-> FinalError(last), at |-> now]
    /\ timers' = ts
    /\ attempts' = atts
    /\ UNCHANGED <<attempt, timerId, nextTimer>>

\* Line 95: attempt++ and the loop test, then the next iteration or the exit.
NextIteration_OffByOne(last, ts, atts) ==
    IF attempt + 1 < MAX_RETRIES
    THEN StartAttempt(attempt + 1, ts, atts) /\ UNCHANGED outcome
    ELSE ExitLoop(last, ts, atts)

NextIteration(last, ts, atts) ==
    IF attempt + 1 <= MAX_RETRIES
    THEN StartAttempt(attempt + 1, ts, atts) /\ UNCHANGED outcome
    ELSE ExitLoop(last, ts, atts)

\* Lines 139-156: the catch block, run with the value the try block threw.
Catch(error, ts, atts) ==
    LET cleared == ClearInCatch(ts, timerId)
        last == AsError(error)
    IN /\ lastError' = last
       /\ IF ShouldRetry(error, attempt)
          THEN /\ pc' = "sleeping"
               /\ timers' = cleared \cup {SetTimeout("sleep", BackoffDelay(attempt), attempt)}
               /\ nextTimer' = nextTimer + 1
               /\ sleeps' = Append(sleeps, [delay |-> BackoffDelay(attempt), from |-> now,
                                            after |-> attempt])
               /\ attempts' = atts
               /\ UNCHANGED <<attempt, timerId, outcome>>
          ELSE /\ UNCHANGED sleeps
               /\ IF ShouldBreak(error)
                  THEN ExitLoop(last, cleared, atts)
                  ELSE NextIteration(last, cleared, atts)

Settled(atts, k, won, state, val) ==
    [atts EXCEPT ![k] = [@ EXCEPT !.race = won, !.raceAt = now, !.op = state, !.v = val]]

\* The caller invokes patchedSignAndSendTransaction(payload).
Invoke ==
    /\ pc = "idle"
    /\ lastError' = JsNull
    /\ StartAttempt(1, timers, attempts)
    /\ UNCHANGED <<now, sleeps, outcome>>
    /\ UNCHANGED <<canonicalizerVars, messageVars, balanceVars>>

\* wallet.signAndSendTransaction resolves while the function awaits the race:
\* lines 110-137, and the catch block when the extraction throws.
OpResolves ==
    \E r \in Results :
        /\ pc = "racing"
        /\ attempts[cur].op = "pending"
        /\ LET atts == Settled(attempts, cur, "op", "resolved", r)
               ts == ClearAfterRace(timers, timerId)
               ex == ExtractSignature(r)
           IN IF ~ex.threw
              THEN /\ pc' = "done"
                   /\ outcome' = [kind |-> "returned", v |-> ex.v, at |-> now]
                   /\ timers' = ts
                   /\ attempts' = atts
                   /\ UNCHANGED <<attempt, timerId, nextTimer, sleeps, lastError>>
              ELSE Catch(ex.v, ts, atts)
        /\ UNCHANGED now
        /\ UNCHANGED <<canonicalizerVars, messageVars, balanceVars>>

\* wallet.signAndSendTransaction rejects while the function awaits the race.
OpRejects ==
    \E e \in Rejections :
        /\ pc = "racing"
        /\ attempts[cur].op = "pending"
        /\ Catch(e, timers, Settled(attempts, cur, "op", "rejected", e))
        /\ UNCHANGED now
        /\ UNCHANGED <<canonicalizerVars, messageVars, balanceVars>>

\* A timeout timer comes due (lines 100-102): it rejects the timeoutPromise of
\* its iteration, which settles that iteration's race unless it is settled.
TimeoutFires ==
    \E t \in timers :
        /\ t.kind = "timeout"
        /\ t.due <= now
        /\ IF pc = "racing" /\ t.att = cur /\ attempts[cur].race = "pending"
           THEN Catch(TimeoutError, timers \ {t},
                      [attempts EXCEPT ![cur] = [@ EXCEPT !.race = "timer", !.raceAt = now]])
           ELSE /\ timers' = timers \ {t}
                /\ UNCHANGED <<pc, attempt, timerId, nextTimer, attempts, sleeps,
                               lastError, outcome>>
        /\ UNCHANGED now
        /\ UNCHANGED <<canonicalizerVars, messageVars, balanceVars>>

\* The timer of sleep(delay) comes due (line 148), then `continue` (line 149).
SleepWakes ==
    \E t \in timers :
        /\ t.kind = "sleep"
        /\ t.due <= now
        /\ pc = "sleeping"
        /\ NextIteration(lastError, timers \ {t}, attempts)
        /\ UNCHANGED <<now, sleeps, lastError>>
        /\ UNCHANGED <<canonicalizerVars, messageVars, balanceVars>>

\* Time passes, up to the next timer that is due.
Advance ==
    /\ pc \in {"racing", "sleeping"}
    /\ timers # {}
    /\ \A t \in timers : t.due > now
    /\ LET due == CHOOSE d \in { t.due : t \in timers } : \A t \in timers : d <= t.due
       IN now' = IF now + TimeStep < due THEN now + TimeStep ELSE due
    /\ UNCHANGED <<pc, attempt, timerId, timers, nextTimer, attempts, sleeps, lastError,
                   outcome>>
    /\ UNCHANGED <<canonicalizerVars, messageVars, balanceVars>>

\* A call the timeout abandoned settles later: nothing awaits it any more.
AbandonedResolves_Delivers ==
    \E k \in 1..Len(attempts), r \in Results :
        /\ attempts[k].race = "timer"
        /\ attempts[k].op = "pending"
        /\ attempts' = [attempts EXCEPT ![k] = [@ EXCEPT !.op = "resolved", !.v = r]]
        /\ outcome' = [kind |-> "returned", v |-> ExtractSignature(r).v, at |-> now]
        /\ UNCHANGED <<pc, attempt, now, timerId, timers, nextTimer, sleeps, lastError>>
        /\ UNCHANGED <<canonicalizerVars, messageVars, balanceVars>>

AbandonedResolves ==
    \E k \in 1..Len(attempts), r \in Results :
        /\ attempts[k].race = "timer"
        /\ attempts[k].op = "pending"
        /\ attempts' = [attempts EXCEPT ![k] = [@ EXCEPT !.op = "resolved", !.v = r]]
        /\ UNCHANGED <<pc, attempt, now, timerId, timers, nextTimer, sleeps, lastError,
                       outcome>>
        /\ UNCHANGED <<canonicalizerVars, messageVars, balanceVars>>

AbandonedRejects ==
    \E k \in 1..Len(attempts), e \in Rejections :
        /\ attempts[k].race = "timer"
        /\ attempts[k].op = "pending"
        /\ attempts' = [attempts EXCEPT ![k] = [@ EXCEPT !.op = "rejected", !.v = e]]
        /\ UNCHANGED <<pc, attempt, now, timerId, timers, nextTimer, sleeps, lastError,
                       outcome>>
        /\ UNCHANGED <<canonicalizerVars, messageVars, balanceVars>>

Next ==
    \/ Invoke
    \/ OpResolves
    \/ OpRejects
    \/ TimeoutFires
    \/ SleepWakes
    \/ Advance
    \/ AbandonedResolves
    \/ AbandonedRejects

Spec == Init /\ [][Next]_vars

\* The same program with the event loop's guarantees: time passes and a timer
\* that is due fires.  Nothing is assumed of the wrapped operation.
FairSpec ==
    /\ Spec
    /\ WF_vars(Advance)
    /\ WF_vars(TimeoutFires)
    /\ WF_vars(SleepWakes)


---------------------------------------------------------------------------
\* State machine of a caller of the canonicalizer: it holds one Uint8Array,
\* passes it through normalizeSignature up to MaxApply times in a row, and
\* asks isHighS / isValidLowS about the array and about every result.

MaxApply == 2

\* The order n of the curve and n / 2 (rounded down), as 32 big-endian bytes.
OrderBytes ==
    <<255, 255, 255, 255, 0, 0, 0, 0, 255, 255, 255, 255, 255, 255, 255, 255,
      188, 230, 250, 173, 167, 23, 158, 132, 243, 185, 202, 194, 252, 99, 37, 81>>

HalfOrderBytes ==
    <<127, 255, 255, 255, 128, 0, 0, 0, 127, 255, 255, 255, 255, 255, 255, 255,
      222, 115, 125, 86, 211, 139, 207, 66, 121, 220, 229, 97, 126, 49, 146, 168>>

WithLast(bytes, b) == [bytes EXCEPT ![Len(bytes)] = b]

Counting == [i \in 1..32 |-> i]

\* Values of the s half: 0, 1, 256, 2^248, the neighbours of n / 2 and of n,
\* values in between, 2^255 and 2^256 - 1.
ScalarCases ==
    { Rep(0, 32),
      WithLast(Rep(0, 32), 1),
      Rep(0, 30) \o <<1, 0>>,
      <<1>> \o Rep(0, 31),
      Counting,
      WithLast(HalfOrderBytes, 167),
      HalfOrderBytes,
      WithLast(HalfOrderBytes, 169),
      <<128>> \o Rep(0, 31),
      <<200>> \o Rep(7, 31),
      SubSeq(OrderBytes, 1, 30) \o <<36, 81>>,
      WithLast(OrderBytes, 80),
      OrderBytes,
      WithLast(OrderBytes, 82),
      <<255, 255, 255, 255, 0, 0, 0, 1>> \o Rep(0, 24),
      Rep(255, 32) }

\* Values of the r half.
RCases == { Rep(0, 32), Counting, Rep(255, 32) }

\* Arrays whose length is not 64; the longer ones hold a high s at bytes 32-63.
OtherLengths ==
    { <<>>,
      <<255>>,
      OrderBytes,
      Counting \o Rep(255, 31),
      Counting \o Rep(255, 32) \o <<1>>,
      Counting \o Rep(255, 32) \o OrderBytes \o OrderBytes }

SigInputs == { r \o s : r \in RCases, s \in ScalarCases } \cup OtherLengths

\* The caller's array is the first live array; `input` keeps its bytes as
\* they were when the caller created it.
SigInit ==
    /\ WalletIdle
    /\ MessageIdle
    /\ BalanceIdle
    /\ input \in SigInputs
    /\ heap = <<input>>
    /\ refs = <<>>
    /\ normalized = <<>>
    /\ verdicts = {}

\* The reference the caller passes: its own array, or the k-th result.
Ref(k) == IF k = 0 THEN 1 ELSE refs[k]

\* The bytes that reference holds now.
Result(k) == heap[Ref(k)]

\* normalizeSignature writing s in place: signature.set(lowSBytes, 32); return signature
NormalizeCall_InPlace(h, ref) ==
    [heap |-> [h EXCEPT ![ref] = normalizeSignature(h[ref])], ref |-> ref]

\* normalizeSignature(signature) on the heap: lines 92 and 121 return the
\* argument itself, line 117 returns the array created at line 114.  The
\* arrays of lines 96, 97 and 108 are not reachable after the call.
NormalizeCall(h, ref) ==
    IF WrongLength(h[ref]) \/ ~IsHigh(bytesToBigInt(slice(h[ref], 32, 64)))
    THEN [heap |-> h, ref |-> ref]
    ELSE [heap |-> Append(h, normalizeSignature(h[ref])), ref |-> Len(h) + 1]

\* const out = normalizeSignature(latest)
Normalize ==
    /\ Len(normalized) < MaxApply
    /\ LET call == NormalizeCall(heap, Ref(Len(refs)))
       IN /\ heap' = call.heap
          /\ refs' = Append(refs, call.ref)
          /\ normalized' = Append(normalized, call.heap[call.ref])
    /\ UNCHANGED <<input, verdicts, walletVars, messageVars, balanceVars>>

\* isHighS(array) of the caller's array (k = 0) or of the k-th result; the
\* function reads the array through signature.slice and writes nothing.
CheckHighS ==
    \E k \in 0..Len(normalized) :
        /\ \A v \in verdicts : ~(v.fn = "isHighS" /\ v.of = k)
        /\ verdicts' = verdicts \cup {[fn |-> "isHighS", of |-> k, value |-> isHighS(Result(k))]}
        /\ UNCHANGED <<heap, refs, input, normalized, walletVars, messageVars, balanceVars>>

\* isValidLowS(array) of the caller's array (k = 0) or of the k-th result
CheckValidLowS ==
    \E k \in 0..Len(normalized) :
        /\ \A v \in verdicts : ~(v.fn = "isValidLowS" /\ v.of = k)
        /\ verdicts' = verdicts \cup {[fn |-> "isValidLowS", of |-> k,
                                       value |-> isValidLowS(Result(k))]}
        /\ UNCHANGED <<heap, refs, input, normalized, walletVars, messageVars, balanceVars>>

SigNext ==
    \/ Normalize
    \/ CheckHighS
    \/ CheckValidLowS

SigSpec == SigInit /\ [][SigNext]_vars

---------------------------------------------------------------------------
\* patchedSignMessage (usePatchedWallet.ts:58-78).
\*
\* A "binary string" (the result of atob, the argument of btoa) is a sequence
\* of characters given by their code unit.

BASE64 ==
    <<"A", "B", "C", "D", "E", "F", "G", "H", "I", "J", "K", "L", "M", "N", "O", "P",
      "Q", "R", "S", "T", "U", "V", "W", "X", "Y", "Z", "a", "b", "c", "d", "e", "f",
      "g", "h", "i", "j", "k", "l", "m", "n", "o", "p", "q", "r", "s", "t", "u", "v",
      "w", "x", "y", "z", "0", "1", "2", "3", "4", "5", "6", "7", "8", "9", "+", "/">>

Base64Value(c) == (CHOOSE k \in 1..64 : BASE64[k] = c) - 1

\* String.fromCharCode(code)
fromCharCode(code) == [code |-> code % 65536]

\* c.charCodeAt(0)
charCodeAt(c) == c.code

IsAsciiWhitespace(c) == c \in {" ", "\t", "\n", "\f", "\r"}

StripWhitespace(str) == SelectSeq(str, LAMBDA c : ~IsAsciiWhitespace(c))

\* the padding of a string whose length is a multiple of 4 is removed
StripPadding(str) ==
    IF Len(str) % 4 # 0 \/ Len(str) = 0 \/ str[Len(str)] # "=" THEN str
    ELSE IF str[Len(str) - 1] = "=" THEN SubSeq(str, 1, Len(str) - 2)
    ELSE SubSeq(str, 1, Len(str) - 1)

\* the byte at 0-based index j of the data the base64 characters encode
DecodedByte(data, j) ==
    LET g == 4 * (j \div 3)
        c1 == Base64Value(data[g + 1])
        c2 == Base64Value(data[g + 2])
    IN CASE j % 3 = 0 -> c1 * 4 + c2 \div 16
         [] j % 3 = 1 -> (c2 % 16) * 16 + Base64Value(data[g + 3]) \div 4
         [] OTHER -> (Base64Value(data[g + 3]) % 4) * 64 + Base64Value(data[g + 4])

\* atob(str): the binary string, or an InvalidCharacterError
atob(str) ==
    LET data == StripPadding(StripWhitespace(str))
    IN IF Len(data) % 4 = 1 \/ \E i \in 1..Len(data) : data[i] \notin Range(BASE64)
       THEN [threw |-> TRUE, v |-> <<>>]
       ELSE [threw |-> FALSE,
             v |-> [j \in 1..((Len(data) * 6) \div 8) |->
                       fromCharCode(DecodedByte(data, j - 1))]]

\* the base64 character at 0-based index k of the encoding of a binary string
EncodedChar(bin, k) ==
    LET g == 3 * (k \div 4)
        b1 == charCodeAt(bin[g + 1])
        b2 == IF g + 2 <= Len(bin) THEN charCodeAt(bin[g + 2]) ELSE 0
        b3 == IF g + 3 <= Len(bin) THEN charCodeAt(bin[g + 3]) ELSE 0
    IN CASE k % 4 = 0 -> BASE64[(b1 \div 4) + 1]
         [] k % 4 = 1 -> BASE64[(b1 % 4) * 16 + b2 \div 16 + 1]
         [] k % 4 = 2 -> IF g + 2 > Len(bin) THEN "="
                         ELSE BASE64[(b2 % 16) * 4 + b3 \div 64 + 1]
         [] OTHER -> IF g + 3 > Len(bin) THEN "=" ELSE BASE64[(b3 % 64) + 1]

\* btoa(bin) of a binary string whose code units are below 256
btoa(bin) == [k \in 1..(4 * ((Len(bin) + 2) \div 3)) |-> EncodedChar(bin, k - 1)]

\* Uint8Array.from(bin, c => c.charCodeAt(0))
Uint8ArrayFrom(bin) == [i \in 1..Len(bin) |-> charCodeAt(bin[i]) % 256]

\* String.fromCharCode(...bytes)
FromCharCodes(bytes) == [i \in 1..Len(bytes) |-> fromCharCode(bytes[i])]

\* result.key of a value that is not null or undefined
Member(result, key) == IF HasProp(result, key) THEN GetProp(result, key) ELSE JsUndefined

\* Lines 65-73: the object literal returned for a high-S signature, else the result
Rewritten(result, sigBytes) ==
    IF isHighS(sigBytes)
    THEN [t |-> "object", s |-> <<>>, id |-> "L69",
          f |-> <<Prop(<<"s", "i", "g", "n", "a", "t", "u", "r", "e">>,
                       JsString(btoa(FromCharCodes(normalizeSignature(sigBytes))))),
                  Prop(<<"s", "i", "g", "n", "e", "d", "P", "a", "y", "l", "o", "a",
                         "d">>, Member(result, <<"s", "i", "g", "n", "e", "d",
                                                           "P", "a", "y", "l", "o", "a",
                                                           "d">>))>>]
    ELSE result

\* The same function whose catch block returns nothing.
Patched_ReturnsNothing(result) ==
    IF result.t \in {"null", "undefined"} THEN JsUndefined
    ELSE LET decoded == atob(String(Member(result, <<"s", "i", "g", "n", "a", "t",
                                                     "u", "r", "e">>)))
         IN IF decoded.threw THEN JsUndefined
            ELSE Rewritten(result, Uint8ArrayFrom(decoded.v))

\* Lines 61-77: what patchedSignMessage returns once wallet.signMessage resolved.
\* Reading result.signature of null or undefined and atob of a string that is
\* not base64 throw inside the try block; the catch block falls through.
Patched(result) ==
    IF result.t \in {"null", "undefined"} THEN result
    ELSE LET decoded == atob(String(Member(result, <<"s", "i", "g", "n", "a", "t",
                                                     "u", "r", "e">>)))
         IN IF decoded.threw THEN result
            ELSE Rewritten(result, Uint8ArrayFrom(decoded.v))

\* The same lines of src/unnamed/part_009 (354-375), whose catch block throws.
NormalizeFailed ==
    NewError(<<"F", "a", "i", "l", "e", "d", " ", "t", "o", " ", "n", "o", "r", "m",
               "a", "l", "i", "z", "e", " ", "s", "i", "g", "n", "a", "t", "u", "r",
               "e", ".", " ", "Y", "o", "u", "r", " ", "w", "a", "l", "l", "e", "t",
               " ", "m", "a", "y", " ", "b", "e", " ", "p", "r", "o", "d", "u", "c",
               "i", "n", "g", " ", "i", "n", "c", "o", "m", "p", "a", "t", "i", "b",
               "l", "e", " ", "s", "i", "g", "n", "a", "t", "u", "r", "e", "s", ".">>,
             "P371")

Patched_009_FallsBack(result) == [kind |-> "returned", v |-> Patched(result)]

Patched_009(result) ==
    IF result.t \in {"null", "undefined"} THEN [kind |-> "threw", v |-> NormalizeFailed]
    ELSE LET decoded == atob(String(Member(result, <<"s", "i", "g", "n", "a", "t",
                                                     "u", "r", "e">>)))
         IN IF decoded.threw THEN [kind |-> "threw", v |-> NormalizeFailed]
            ELSE [kind |-> "returned", v |-> Rewritten(result, Uint8ArrayFrom(decoded.v))]

\* The two copies of the hook in the repository.
Variants == { "hooks", "part_009" }

\* Values wallet.signMessage may resolve with.
Payloads == { JsString(<<"c", "G", "F", "5", "b", "G", "9", "h", "Z", "A", "=", "=">>), JsString(<<>>) }

WireResult(wire, payload) ==
    JsObject(<<Prop(<<"s", "i", "g", "n", "a", "t", "u", "r", "e">>, JsString(wire)), Prop(<<"s", "i", "g", "n", "e", "d",
                                                           "P", "a", "y", "l", "o", "a",
                                                           "d">>, payload)>>)

\* r = 1..32 with s = n/2 + 1, and with s = n + 1, in the wire encoding
WireHighS ==
    <<"A", "Q", "I", "D", "B", "A", "U", "G", "B", "w", "g", "J", "C", "g", "s", "M",
      "D", "Q", "4", "P", "E", "B", "E", "S", "E", "x", "Q", "V", "F", "h", "c", "Y",
      "G", "R", "o", "b", "H", "B", "0", "e", "H", "y", "B", "/", "/", "/", "/", "/",
      "g", "A", "A", "A", "A", "H", "/", "/", "/", "/", "/", "/", "/", "/", "/", "/",
      "3", "n", "N", "9", "V", "t", "O", "L", "z", "0", "J", "5", "3", "O", "V", "h",
      "f", "j", "G", "S", "q", "Q", "=", "=">>

WireAboveOrder ==
    <<"A", "Q", "I", "D", "B", "A", "U", "G", "B", "w", "g", "J", "C", "g", "s", "M",
      "D", "Q", "4", "P", "E", "B", "E", "S", "E", "x", "Q", "V", "F", "h", "c", "Y",
      "G", "R", "o", "b", "H", "B", "0", "e", "H", "y", "D", "/", "/", "/", "/", "/",
      "A", "A", "A", "A", "A", "P", "/", "/", "/", "/", "/", "/", "/", "/", "/", "/",
      "v", "O", "b", "6", "r", "a", "c", "X", "n", "o", "T", "z", "u", "c", "r", "C",
      "/", "G", "M", "l", "U", "g", "=", "=">>

SignResults ==
    { WireResult(btoa(FromCharCodes(bytes)), payload) : bytes \in SigInputs, payload \in Payloads }
    \cup { WireResult(WireHighS, payload) : payload \in Payloads }
    \cup { WireResult(WireAboveOrder, JsString(<<>>)),
           WireResult(SubSeq(WireHighS, 1, 86), JsString(<<>>)),
           WireResult(<<"n", "o", "t", " ", "b", "a", "s", "e", "6", "4", "!">>, JsString(<<>>)),
           WireResult(<<"Q", "U", "J", "D", "=">>, JsString(<<>>)),
           JsObject(<<Prop(<<"s", "i", "g", "n", "e", "d", "P", "a", "y", "l", "o",
                             "a", "d">>, JsString(<<>>))>>),
           JsObject(<<Prop(<<"s", "i", "g", "n", "a", "t", "u", "r", "e">>, JsString(WireHighS)),
                      Prop(<<"s", "i", "g", "n", "e", "d", "P", "a", "y", "l", "o",
                             "a", "d">>, JsString(<<"c", "G", "F", "5", "b", "G",
                                                         "9", "h", "Z", "A", "=", "=">>)),
                      Prop(<<"p", "u", "b", "l", "i", "c", "K", "e", "y">>, JsString(<<"a", "b", "c">>))>>),
           JsObject(<<Prop(<<"s", "i", "g", "n", "a", "t", "u", "r", "e">>, JsString(WireHighS))>>),
           JsNull,
           JsUndefined }

Messages == { <<"h", "e", "l", "l", "o">>, <<>> }

MsgInit ==
    /\ WalletIdle
    /\ CanonicalizerIdle
    /\ BalanceIdle
    /\ msgPc = "idle"
    /\ msgText = <<>>
    /\ signCalls = <<>>
    /\ remote = [state |-> "pending", v |-> JsUndefined]
    /\ msgOutcome = [kind |-> "pending", v |-> JsUndefined]
    /\ variant \in Variants

\* The caller invokes patchedSignMessage(message): line 59 calls wallet.signMessage.
SignMessage ==
    \E m \in Messages :
        /\ msgPc = "idle"
        /\ msgPc' = "awaiting"
        /\ msgText' = m
        /\ signCalls' = Append(signCalls, m)
        /\ UNCHANGED <<remote, msgOutcome, variant, walletVars, canonicalizerVars, balanceVars>>

\* wallet.signMessage resolves: lines 61-77.
SignResolves ==
    \E r \in SignResults :
        /\ msgPc = "awaiting"
        /\ msgPc' = "done"
        /\ remote' = [state |-> "resolved", v |-> r]
        /\ msgOutcome' = IF variant = "hooks" THEN [kind |-> "returned", v |-> Patched(r)]
                          ELSE Patched_009(r)
        /\ UNCHANGED <<msgText, signCalls, variant, walletVars, canonicalizerVars, balanceVars>>

\* wallet.signMessage rejects: the await of line 59 throws outside the try block.
SignRejects ==
    \E e \in Rejections :
        /\ msgPc = "awaiting"
        /\ msgPc' = "done"
        /\ remote' = [state |-> "rejected", v |-> e]
        /\ msgOutcome' = [kind |-> "threw", v |-> e]
        /\ UNCHANGED <<msgText, signCalls, variant, walletVars, canonicalizerVars, balanceVars>>

MsgNext ==
    \/ SignMessage
    \/ SignResolves
    \/ SignRejects

MsgSpec == MsgInit /\ [][MsgNext]_vars

\* One invocation of either entry point of the mounted hook.
InvokeEither == msgPc = "idle" /\ Invoke

SignMessageEither == pc = "idle" /\ SignMessage

CoreNext ==
    \/ InvokeEither
    \/ OpResolves
    \/ OpRejects
    \/ TimeoutFires
    \/ SleepWakes
    \/ Advance
    \/ AbandonedResolves
    \/ AbandonedRejects
    \/ SignMessageEither
    \/ SignResolves
    \/ SignRejects

CoreSpec == MsgInit /\ [][CoreNext]_vars

\* ---------------------------------------------------------------------------
\* useSolanaBalance: balance polling with retry and auto-refresh
\* ---------------------------------------------------------------------------

BALANCE_REFRESH_INTERVAL == 60000

BALANCE_MAX_RETRIES == 3

LAMPORTS_PER_SOL == 1000000000

RETRY_DELAY_CAP == 10000

MaxRenders == 2

MaxHandles == 5

PublicKeys == {NoKey, "K1", "K2"}

\* getBalance answers in whole SOL here, so lamports / LAMPORTS_PER_SOL is exact.
Lamports == {2 * LAMPORTS_PER_SOL}

RpcErrors ==
    { [isError |-> TRUE, message |-> "429 Too Many Requests"],
      [isError |-> TRUE, message |-> ""],
      [isError |-> FALSE, message |-> "rpc down"] }

HookProps ==
    [ publicKey : PublicKeys,
      autoRefresh : BOOLEAN,
      refreshInterval : {BALANCE_REFRESH_INTERVAL, 30000},
      maxRetries : {BALANCE_MAX_RETRIES} ]

\* The refs, timers, calls and React state one synchronous step works on.
World ==
    [ isMounted |-> isMounted, refreshTimerRef |-> refreshTimerRef,
      retryTimeoutRef |-> retryTimeoutRef, timers |-> balanceTimers, fetches |-> fetches,
      state |-> balanceState, lastWrite |-> lastWrite, nextHandle |-> nextHandle ]

Commit(w) ==
    /\ w.nextHandle <= MaxHandles + 1
    /\ isMounted' = w.isMounted
    /\ refreshTimerRef' = w.refreshTimerRef
    /\ retryTimeoutRef' = w.retryTimeoutRef
    /\ balanceTimers' = w.timers
    /\ fetches' = w.fetches
    /\ balanceState' = w.state
    /\ lastWrite' = w.lastWrite
    /\ nextHandle' = w.nextHandle

\* if (ref.current) clearTimeout(ref.current): the ref keeps the stale handle.
ClearTimer(w, handle) ==
    [w EXCEPT !.timers = {t \in w.timers : t.id # handle}]

\* The cleanup the refresh effect returned.
Cleanup(w) ==
    ClearTimer(ClearTimer(w, w.refreshTimerRef), w.retryTimeoutRef)

Min(a, b) == IF a < b THEN a ELSE b

RetryDelay(n) == Min(BASE_DELAY_MS * Pow2(n), RETRY_DELAY_CAP)

\* startRefreshLoop of effect run e (cl: the props every effect run captured).
StartRefreshLoop(w, cl, e) ==
    [w EXCEPT
        !.timers = @ \cup {[id |-> w.nextHandle, kind |-> "refresh", effect |-> e,
                            fetch |-> 0, delay |-> cl[e].refreshInterval]},
        !.refreshTimerRef = w.nextHandle,
        !.nextHandle = @ + 1]

\* The .then callback of a refresh fetch of effect run e.
ThenCallback(w, cl, e) ==
    IF w.isMounted /\ cl[e].autoRefresh THEN StartRefreshLoop(w, cl, e) ELSE w

\* fetchBalance call f returns: its promise resolves.
Return(w, cl, f) ==
    LET gone == [w EXCEPT !.fetches = {g \in w.fetches : g.id # f.id}]
    IN  IF f.chained THEN ThenCallback(gone, cl, f.effect) ELSE gone

\* fetchBalance(showLoading) of effect run e, up to its first await.
FetchBalance(w, cl, e, showLoading, chained) ==
    LET call == [id |-> w.nextHandle, effect |-> e, attempt |-> 0, awaiting |-> "rpc",
                 chained |-> chained, lastError |-> "null"]
        loading ==
            IF showLoading /\ w.isMounted
            THEN [w EXCEPT !.state = [@ EXCEPT !.isLoading = TRUE, !.error = "null"]]
            ELSE w
    IN  IF cl[e].publicKey = NoKey
        THEN Return(IF w.isMounted THEN [w EXCEPT !.state = InitialState] ELSE w, cl, call)
        ELSE IF ~loading.isMounted
        THEN Return(loading, cl, call)
        ELSE [loading EXCEPT !.fetches = @ \cup {call}, !.nextHandle = @ + 1]

\* The body of the refresh effect for effect run e.
RunEffect(w, cl, e) ==
    LET fetched == FetchBalance(w, cl, e, TRUE, FALSE)
    IN  IF cl[e].publicKey = NoKey THEN w
        ELSE IF cl[e].autoRefresh THEN StartRefreshLoop(fetched, cl, e)
        ELSE fetched

\* Did the last effect run return a cleanup function?
HasCleanup == closures # <<>> /\ closures[Len(closures)].publicKey # NoKey

ErrorMessage(err) == IF err.isError THEN err.message ELSE "Unknown error"

BalanceFrame == UNCHANGED <<walletVars, canonicalizerVars, messageVars>>

\* First render: the unmount effect sets isMounted, then the refresh effect runs.
Mount ==
    /\ ~isMounted
    /\ closures = <<>>
    /\ \E p \in HookProps :
        /\ hookProps' = p
        /\ closures' = <<p>>
        /\ Commit(RunEffect([World EXCEPT !.isMounted = TRUE], <<p>>, 1))
    /\ BalanceFrame

\* A render with a changed dependency: cleanup of the previous run, then a new run.
PropsChange ==
    /\ isMounted
    /\ Len(closures) < MaxRenders
    /\ \E p \in HookProps :
        /\ p # hookProps
        /\ hookProps' = p
        /\ closures' = Append(closures, p)
        /\ Commit(RunEffect(IF HasCleanup THEN Cleanup(World) ELSE World,
                            Append(closures, p), Len(closures) + 1))
    /\ BalanceFrame

\* refresh(): fetchBalance(true) of the latest render.
Refresh ==
    /\ isMounted
    /\ Commit(FetchBalance(World, closures, Len(closures), TRUE, FALSE))
    /\ UNCHANGED <<hookProps, closures>>
    /\ BalanceFrame

\* The setTimeout callback of startRefreshLoop.
RefreshTimerFires ==
    /\ \E t \in balanceTimers :
        /\ t.kind = "refresh"
        /\ LET fired == [World EXCEPT !.timers = @ \ {t}]
           IN  Commit(IF isMounted
                      THEN FetchBalance(fired, closures, t.effect, FALSE, TRUE)
                      ELSE fired)
    /\ UNCHANGED <<hookProps, closures>>
    /\ BalanceFrame

\* connection.getBalance(publicKey) resolves.
FetchResolves ==
    /\ \E f \in fetches, lamports \in Lamports :
        /\ f.awaiting = "rpc"
        /\ LET written ==
                 [World EXCEPT
                     !.state = [sol |-> lamports \div LAMPORTS_PER_SOL, isLoading |-> FALSE,
                                error |-> "null", lastUpdated |-> "Date.now()"],
                     !.lastWrite = [fetchedFor |-> closures[f.effect].publicKey,
                                    publicKey |-> hookProps.publicKey,
                                    chained |-> f.chained]]
           IN  Commit(Return(IF isMounted THEN written ELSE World, closures, f))
    /\ UNCHANGED <<hookProps, closures>>
    /\ BalanceFrame

\* connection.getBalance(publicKey) rejects.
FetchRejects ==
    /\ \E f \in fetches, err \in RpcErrors :
        /\ f.awaiting = "rpc"
        /\ LET message == ErrorMessage(err)
               waiting == [f EXCEPT !.awaiting = "delay", !.lastError = message]
               retrying ==
                 [World EXCEPT
                     !.fetches = (@ \ {f}) \cup {waiting},
                     !.timers = @ \cup {[id |-> nextHandle, kind |-> "retry",
                                         effect |-> f.effect, fetch |-> f.id,
                                         delay |-> RetryDelay(f.attempt)]},
                     !.retryTimeoutRef = nextHandle,
                     !.nextHandle = @ + 1]
               failed ==
                 [World EXCEPT
                     !.state = [@ EXCEPT !.isLoading = FALSE,
                                         !.error = IF message = ""
                                                   THEN "Failed to fetch balance"
                                                   ELSE message]]
           IN  Commit(IF f.attempt < closures[f.effect].maxRetries /\ isMounted
                      THEN retrying
                      ELSE Return(IF isMounted THEN failed ELSE World, closures, f))
    /\ UNCHANGED <<hookProps, closures>>
    /\ BalanceFrame

\* The retry delay of a fetchBalance call elapses.
RetryTimerFires ==
    /\ \E t \in balanceTimers, f \in fetches :
        /\ t.kind = "retry"
        /\ f.id = t.fetch
        /\ LET fired == [World EXCEPT !.timers = @ \ {t}]
               again == [f EXCEPT !.attempt = @ + 1, !.awaiting = "rpc"]
           IN  Commit(IF isMounted
                      THEN [fired EXCEPT !.fetches = (@ \ {f}) \cup {again}]
                      ELSE Return(fired, closures, f))
    /\ UNCHANGED <<hookProps, closures>>
    /\ BalanceFrame

\* Unmount: the cleanups of both effects run.
Unmount ==
    /\ isMounted
    /\ Commit([Cleanup(World) EXCEPT !.isMounted = FALSE])
    /\ UNCHANGED <<hookProps, closures>>
    /\ BalanceFrame

BalanceNext ==
    \/ Mount
    \/ PropsChange
    \/ Refresh
    \/ RefreshTimerFires
    \/ FetchResolves
    \/ FetchRejects
    \/ RetryTimerFires
    \/ Unmount

BalanceSpec == Init /\ [][BalanceNext]_vars
---------------------------------------------------------------------------
\* Vocabulary of the properties.

\* Call k of the wrapped operation settled while its race was open.
RaceWonByOp(k) == attempts[k].race = "op"

\* Call k rejected, inside its race, with a value classified as rate-limit.
RejectedRateLimit(k) ==
    /\ RaceWonByOp(k)
    /\ attempts[k].op = "rejected"
    /\ is429Error(attempts[k].v)

\* Call k resolved inside its race.
ResolvedInRace(k) == RaceWonByOp(k) /\ attempts[k].op = "resolved"

\* No sleep(delay) was started after attempt k.
NoSleepAfter(k) == \A i \in 1..Len(sleeps) : sleeps[i].after # k

\* The invocation ended with attempt k and handed v to its caller.
ReturnedFrom(k, v) ==
    /\ k = Len(attempts)
    /\ pc = "done"
    /\ outcome.kind = "returned"
    /\ outcome.v = v
    /\ outcome.at = attempts[k].raceAt

\* The invocation ended with attempt k by throwing.
ThrewFrom(k) ==
    /\ k = Len(attempts)
    /\ pc = "done"
    /\ outcome.kind = "threw"
    /\ outcome.at = attempts[k].raceAt

IsNonNullObject(R) == R.t \in {"object", "array", "Error"}

HasStringSignature(R) ==
    /\ HasProp(R, <<"s", "i", "g", "n", "a", "t", "u", "r", "e">>)
    /\ GetProp(R, <<"s", "i", "g", "n", "a", "t", "u", "r", "e">>).t = "string"

HasSignaturesList(R) ==
    /\ HasProp(R, <<"s", "i", "g", "n", "a", "t", "u", "r", "e", "s">>)
    /\ GetProp(R, <<"s", "i", "g", "n", "a", "t", "u", "r", "e", "s">>).t = "array"
    /\ Len(GetProp(R, <<"s", "i", "g", "n", "a", "t", "u", "r", "e", "s">>).f) > 0

LastSignature(R) ==
    LET list == GetProp(R, <<"s", "i", "g", "n", "a", "t", "u", "r", "e", "s">>).f IN list[Len(list)].v

\* A run of at least 87 base58 characters starts at position i of str.
TokenAt(str, i) ==
    /\ i >= 1
    /\ i + 86 <= Len(str)
    /\ \A j \in i..(i + 86) : str[j] \in Base58

HasToken(str) == \E i \in 1..Len(str) : TokenAt(str, i)

\* tok is the first base58 token of 87-88 characters of str.
IsFirstToken(tok, str) ==
    \E i \in 1..Len(str) :
        /\ TokenAt(str, i)
        /\ \A j \in 1..(i - 1) : ~TokenAt(str, j)
        /\ Len(tok) \in {87, 88}
        /\ i + Len(tok) - 1 <= Len(str)
        /\ tok = SubSeq(str, i, i + Len(tok) - 1)
        /\ \A j \in 1..Len(tok) : tok[j] \in Base58
        /\ Len(tok) = 87 => (i + 87 > Len(str) \/ str[i + 87] \notin Base58)

\* No signature can be taken from R by any of the four rules.
Unextractable(R) ==
    \/ R.t \in {"null", "undefined", "number", "boolean"}
    \/ /\ IsNonNullObject(R)
       /\ ~HasStringSignature(R)
       /\ ~HasSignaturesList(R)
       /\ ~HasToken(stringify(R))

PaymasterMarker ==
    <<"p", "a", "y", "m", "a", "s", "t", "e", "r", " ", "i", "s", " ", "r", "a", "t",
      "e", " ", "l", "i", "m", "i", "t", "i", "n", "g">>

\* The error is the distinguished throttling error of lines 163-167.
IsThrottlingError(e) ==
    e.t = "Error" /\ e.id = "L163" /\ includes(e.s, PaymasterMarker)

\* Every call of the wrapped operation was rejected as rate-limit and the
\* retries are used up.
RetriesExhausted ==
    /\ Len(attempts) = MAX_RETRIES
    /\ \A k \in 1..Len(attempts) : RejectedRateLimit(k)

---------------------------------------------------------------------------
\* C1 (retry bound): when every call of the wrapped operation rejected with an
\* Error classified as rate-limit, the finished invocation has called it
\* exactly MAX_RETRIES times and threw the throttling error, whose message
\* contains the message of the last underlying error.
C1_RetryBound ==
    (pc = "done" /\ \A k \in 1..Len(attempts) : RejectedRateLimit(k))
        => /\ Len(attempts) = MAX_RETRIES
           /\ outcome.kind = "threw"
           /\ IsThrottlingError(outcome.v)
           /\ includes(outcome.v.s, attempts[Len(attempts)].v.s)

C1_Witness ==
    /\ pc = "done"
    /\ Len(attempts) = 3
    /\ \A k \in 1..3 : RejectedRateLimit(k)
    /\ IsThrottlingError(outcome.v)

\* C2 (no retry on a terminal error): a rejection that is not classified as
\* rate-limit, on any attempt, ends the invocation at once: that attempt is
\* the last one and no backoff sleep follows it.
C2_NoRetryOnTerminalError ==
    \A k \in 1..Len(attempts) :
        (RaceWonByOp(k) /\ attempts[k].op = "rejected" /\ ~is429Error(attempts[k].v))
            => /\ ThrewFrom(k)
               /\ NoSleepAfter(k)
               /\ Len(sleeps) = k - 1
               /\ \A t \in timers : t.kind # "sleep"

C2_Witness ==
    /\ Len(attempts) = 2
    /\ attempts[2].op = "rejected"
    /\ RaceWonByOp(2)
    /\ ~is429Error(attempts[2].v)
    /\ pc = "done"

\* C3 (timeout enforcement): a race stays open no longer than TIMEOUT_MS; when
\* the timer wins it, the invocation throws the timeout error at exactly
\* start + TIMEOUT_MS and no further attempt is started.
C3_TimeoutEnforced ==
    \A k \in 1..Len(attempts) :
        /\ attempts[k].race = "pending" => now <= attempts[k].start + TIMEOUT_MS
        /\ attempts[k].race = "timer"
            => /\ attempts[k].raceAt = attempts[k].start + TIMEOUT_MS
               /\ ThrewFrom(k)
               /\ outcome.v = TimeoutError
               /\ NoSleepAfter(k)

C3_Witness ==
    /\ Len(attempts) = 2
    /\ attempts[2].race = "timer"
    /\ attempts[2].op = "pending"
    /\ pc = "done"
    /\ now = attempts[2].start + TIMEOUT_MS

\* C4 (success after a transient failure): attempt 1 rejected as rate-limit
\* and attempt 2 resolved with a string v: the invocation returns v, it slept
\* exactly once, for BASE_DELAY_MS * 2^0, between the two attempts.
C4_SuccessAfterTransient ==
    ( /\ Len(attempts) >= 2
      /\ RejectedRateLimit(1)
      /\ ResolvedInRace(2)
      /\ attempts[2].v.t = "string" )
        => /\ ReturnedFrom(2, attempts[2].v)
           /\ Len(sleeps) = 1
           /\ sleeps[1].delay = BASE_DELAY_MS
           /\ sleeps[1].from = attempts[1].raceAt
           /\ attempts[2].start = attempts[1].raceAt + BASE_DELAY_MS

C4_Witness ==
    /\ Len(attempts) = 2
    /\ RejectedRateLimit(1)
    /\ ResolvedInRace(2)
    /\ outcome.kind = "returned"
    /\ outcome.v = JsString(ShortSig)

\* C5 (response-shape precedence): a value R resolved inside the race yields R
\* if it is a string; else R.signature if that is a string; else the last
\* element of a non-empty list R.signatures; else the first base58 token of
\* 87-88 characters of the JSON text of R.
C5_ShapePrecedence ==
    \A k \in 1..Len(attempts) :
        ResolvedInRace(k) =>
            LET R == attempts[k].v
            IN IF R.t = "string" THEN ReturnedFrom(k, R)
               ELSE IF IsNonNullObject(R) /\ HasStringSignature(R)
               THEN ReturnedFrom(k, GetProp(R, <<"s", "i", "g", "n", "a", "t", "u",
                                                 "r", "e">>))
               ELSE IF IsNonNullObject(R) /\ HasSignaturesList(R)
               THEN ReturnedFrom(k, LastSignature(R))
               ELSE IF R.t # "undefined" /\ HasToken(stringify(R))
               THEN /\ ReturnedFrom(k, outcome.v)
                    /\ outcome.v.t = "string"
                    /\ IsFirstToken(outcome.v.s, stringify(R))
               ELSE TRUE

C5_Witness ==
    /\ pc = "done"
    /\ ResolvedInRace(Len(attempts))
    /\ LET R == attempts[Len(attempts)].v
       IN /\ R.t = "object"
          /\ ~HasStringSignature(R)
          /\ ~HasSignaturesList(R)
          /\ HasProp(R, <<"s", "i", "g", "n", "a", "t", "u", "r", "e">>)
          /\ HasProp(R, <<"s", "i", "g", "n", "a", "t", "u", "r", "e", "s">>)
          /\ outcome.v = JsString(Sig88b)

\* C6 (an unrecognized shape is terminal): a resolved value from which no
\* signature can be taken makes the invocation throw an extraction error at
\* once, on any attempt, with no further attempt and no backoff sleep.
C6_UnrecognizedShapeTerminal ==
    \A k \in 1..Len(attempts) :
        (ResolvedInRace(k) /\ Unextractable(attempts[k].v))
            => /\ ThrewFrom(k)
               /\ outcome.v.t = "Error"
               /\ outcome.v.id \in {"L130", "L134"}
               /\ NoSleepAfter(k)
               /\ \A t \in timers : t.kind # "sleep"

C6_Witness ==
    /\ Len(attempts) = 2
    /\ ResolvedInRace(2)
    /\ attempts[2].v = JsObject(<<Prop(<<"f", "o", "o">>, JsNumber(<<"1", "2", "3">>))>>)
    /\ outcome.kind = "threw"
    /\ outcome.v.id = "L130"

\* C7 (canonical result): whatever the wrapped operation resolved with, a
\* value returned to the caller is a plain string.
C7_CanonicalResult ==
    outcome.kind = "returned" => outcome.v.t = "string"

\* C8 (terminal error identity): the throttling error is thrown only when the
\* rate-limit retries are exhausted; every other failure hands the caller
\* the original error value unchanged.
C8_TerminalErrorIdentity ==
    (pc = "done" /\ outcome.kind = "threw") =>
        LET k == Len(attempts)
            original ==
                IF attempts[k].race = "timer" THEN TimeoutError
                ELSE IF attempts[k].op = "rejected" THEN attempts[k].v
                ELSE ExtractSignature(attempts[k].v).v
        IN /\ IsThrottlingError(outcome.v) => RetriesExhausted
           /\ ~RetriesExhausted => outcome.v = original

\* C9 (timer hygiene): a pending timeout timer belongs to a race that is still
\* open; at most one is pending, none during a backoff sleep, none after the
\* invocation has returned or thrown.
C9_TimerHygiene ==
    LET pending == { t \in timers : t.kind = "timeout" }
    IN /\ Cardinality(pending) <= 1
       /\ \A t \in pending : attempts[t.att].race = "pending"
       /\ pc \in {"sleeping", "done"} => pending = {}

C9_Witness ==
    /\ pc = "sleeping"
    /\ Len(attempts) = 2
    /\ RaceWonByOp(2)
    /\ now < attempts[2].start + TIMEOUT_MS

\* C10 (sequential attempts): at most one call of the wrapped operation is
\* unsettled at any time, and attempt k+1 starts only after attempt k has
\* settled and the backoff sleep begun after it has elapsed.
C10_SequentialAttempts ==
    /\ Cardinality({ k \in 1..Len(attempts) : attempts[k].op = "pending" }) <= 1
    /\ \A k \in 1..(Len(attempts) - 1) :
        /\ attempts[k].op # "pending"
        /\ RaceWonByOp(k)
        /\ \E i \in 1..Len(sleeps) :
            /\ sleeps[i].after = k
            /\ sleeps[i].from >= attempts[k].raceAt
            /\ attempts[k + 1].start >= sleeps[i].from + sleeps[i].delay

C10_Witness ==
    /\ Len(attempts) = 3
    /\ attempts[3].op = "pending"
    /\ pc = "racing"
    /\ now > attempts[3].start

\* The outcome attempt k, the last one, gave the caller.
OutcomeOfLastAttempt ==
    LET k == Len(attempts)
    IN IF attempts[k].race = "timer"
       THEN outcome.kind = "threw" /\ outcome.v = FinalError(TimeoutError)
       ELSE IF attempts[k].op = "rejected"
       THEN outcome.kind = "threw" /\ outcome.v = FinalError(AsError(attempts[k].v))
       ELSE IF ExtractSignature(attempts[k].v).threw
       THEN outcome.kind = "threw" /\ outcome.v = ExtractSignature(attempts[k].v).v
       ELSE outcome.kind = "returned" /\ outcome.v = ExtractSignature(attempts[k].v).v

\* C11 (single observable outcome): the caller observes an outcome exactly when
\* the function has ended; it is the outcome of the last attempt; once
\* delivered it never changes, and no step after it (the late settlement of
\* an abandoned call included) starts a call, a sleep or a timer.
C11_SingleOutcome ==
    /\ []((outcome.kind # "pending") <=> (pc = "done"))
    /\ [](pc = "done" => (attempts[Len(attempts)].race # "pending" /\ OutcomeOfLastAttempt))
    /\ [][outcome.kind # "pending" =>
            /\ outcome' = outcome
            /\ pc' = pc
            /\ timers' = timers
            /\ sleeps' = sleeps
            /\ lastError' = lastError
            /\ Len(attempts') = Len(attempts)]_vars

C11_Witness ==
    /\ pc = "done"
    /\ attempts[Len(attempts)].race = "timer"
    /\ attempts[Len(attempts)].op = "resolved"
    /\ attempts[Len(attempts)].v = JsString(ShortSig)
    /\ outcome.kind = "threw"
    /\ outcome.v = TimeoutError

\* C12 (bounded termination): an invocation that was made ends, whatever the
\* wrapped operation does, given that timers fire; it makes at most
\* MAX_RETRIES attempts, each race lasting at most TIMEOUT_MS, and at most
\* MAX_RETRIES - 1 backoff sleeps.
C12_BoundedTermination ==
    /\ [](/\ Len(attempts) <= MAX_RETRIES
          /\ Len(sleeps) <= MAX_RETRIES - 1
          /\ \A k \in 1..Len(attempts) :
                IF attempts[k].race = "pending"
                THEN now - attempts[k].start <= TIMEOUT_MS
                ELSE attempts[k].raceAt - attempts[k].start <= TIMEOUT_MS)
    /\ (pc # "idle") ~> (pc = "done")

C12_Witness ==
    /\ pc = "done"
    /\ Len(attempts) = MAX_RETRIES
    /\ Len(sleeps) = MAX_RETRIES - 1
    /\ attempts[MAX_RETRIES].race = "timer"
    /\ attempts[MAX_RETRIES].op = "pending"


---------------------------------------------------------------------------
\* Claims about the canonicalizer (SigSpec).  The numbers of the claims are
\* read off the bytes: comparison and addition are done on the 32-byte
\* big-endian strings themselves.

RHalf(x) == SubSeq(x, 1, 32)

SHalf(x) == SubSeq(x, 33, 64)

ZeroBytes == Rep(0, 32)

\* a < b as big-endian numbers of one length
BytesLess(a, b) ==
    \E i \in 1..Len(a) : a[i] < b[i] /\ \A j \in 1..(i - 1) : a[j] = b[j]

BytesLessEq(a, b) == a = b \/ BytesLess(a, b)

\* what byte i of a + b receives from the bytes after it
Carry(a, b, i) ==
    IF \E k \in (i + 1)..Len(a) :
          a[k] + b[k] > 255 /\ \A j \in (i + 1)..(k - 1) : a[j] + b[j] = 255
    THEN 1 ELSE 0

\* the bytes of a + b preceded by the carry out of them
AddBytes(a, b) ==
    <<Carry(a, b, 0)>> \o [i \in 1..Len(a) |-> (a[i] + b[i] + Carry(a, b, i)) % 256]

\* a + b = total as numbers, nothing carried out of the 32 bytes
SumsTo(a, b, total) == AddBytes(a, b) = <<0>> \o total

\* The caller's array is 64 bytes long.
Is64 == Len(input) = 64

\* 0 < s < n for the s half of the caller's array
ScalarInRange ==
    /\ Is64
    /\ BytesLess(ZeroBytes, SHalf(input))
    /\ BytesLess(SHalf(input), OrderBytes)

\* C13 (idempotence): normalizing a result of normalizeSignature again gives
\* the same bytes, for every 64-byte array.
C13_Idempotent ==
    Is64 => \A k \in 2..Len(normalized) : normalized[k] = normalized[k - 1]

\* C14 (canonical form): for a 64-byte array with 0 < s < n, isHighS of the
\* result of normalizeSignature is false.
C14_CanonicalForm ==
    ScalarInRange =>
        /\ \A v \in verdicts : (v.fn = "isHighS" /\ v.of = 1) => v.value = FALSE
        /\ Len(normalized) >= 1 => BytesLessEq(SHalf(normalized[1]), HalfOrderBytes)

C14_Witness ==
    /\ ScalarInRange
    /\ BytesLess(HalfOrderBytes, SHalf(input))
    /\ [fn |-> "isHighS", of |-> 0, value |-> TRUE] \in verdicts
    /\ [fn |-> "isHighS", of |-> 1, value |-> FALSE] \in verdicts
    /\ normalized[1] # input

\* C15 as stated: for every 64-byte array, isValidLowS of the result of
\* normalizeSignature is true.
C15_AlwaysValid ==
    Is64 => \A v \in verdicts : (v.fn = "isValidLowS" /\ v.of = 1) => v.value = TRUE

\* C15 (amended): for a 64-byte array, isValidLowS of the result of
\* normalizeSignature is true exactly when 0 < s < n; the s half of the result
\* then satisfies 0 < s' <= n/2, and otherwise does not.
C15_ValidIffInRange ==
    Is64 =>
        /\ \A v \in verdicts :
              (v.fn = "isValidLowS" /\ v.of = 1) => (v.value <=> ScalarInRange)
        /\ Len(normalized) >= 1 =>
              (ScalarInRange <=> /\ BytesLess(ZeroBytes, SHalf(normalized[1]))
                                 /\ BytesLessEq(SHalf(normalized[1]), HalfOrderBytes))

C15_Witness ==
    /\ Is64
    /\ SHalf(input) = WithLast(HalfOrderBytes, 169)
    /\ Len(normalized) >= 1
    /\ SHalf(normalized[1]) = HalfOrderBytes
    /\ [fn |-> "isValidLowS", of |-> 0, value |-> FALSE] \in verdicts
    /\ [fn |-> "isValidLowS", of |-> 1, value |-> TRUE] \in verdicts

\* C16 (length passthrough, totality): an array whose length is not 64 comes
\* back unchanged; every call returns, and returns an array of the length of
\* its argument.
C16_LengthPassthrough ==
    /\ \A k \in 1..Len(normalized) : Len(normalized[k]) = Len(input)
    /\ ~Is64 => \A k \in 1..Len(normalized) : normalized[k] = input

C16_Witness ==
    /\ Len(input) = 65
    /\ BytesLess(OrderBytes, SHalf(input))
    /\ Len(normalized) = MaxApply
    /\ normalized[MaxApply] = input

\* C17 (r-preservation): bytes 0-31 of the result equal bytes 0-31 of the
\* 64-byte argument, whether or not the s half was rewritten.
C17_RPreserved ==
    Is64 => \A k \in 1..Len(normalized) : RHalf(normalized[k]) = RHalf(input)

C17_Witness ==
    /\ Is64
    /\ RHalf(input) = Counting
    /\ Len(normalized) >= 1
    /\ SHalf(normalized[1]) # SHalf(input)
    /\ RHalf(normalized[1]) = Counting

\* s > n/2 for the s half of the caller's 64-byte array
ScalarHigh == Is64 /\ BytesLess(HalfOrderBytes, SHalf(input))

\* The s half of the first result is a value s' with s' + s = n exactly,
\* 0 < s' and s' <= n/2.
ExactLowS ==
    /\ SumsTo(SHalf(normalized[1]), SHalf(input), OrderBytes)
    /\ BytesLess(ZeroBytes, SHalf(normalized[1]))
    /\ BytesLessEq(SHalf(normalized[1]), HalfOrderBytes)

\* C18 as stated: for every s > n/2 that 32 bytes can hold, the value written
\* is n - s, is > 0 and <= n/2, and is encoded without wrap-around.
C18_ExactForEveryHighS ==
    (ScalarHigh /\ Len(normalized) >= 1) => ExactLowS

\* C18 (amended): for n/2 < s < n the value written is n - s, is > 0 and
\* <= n/2, and is encoded exactly; for s = n the value written is 0; for
\* s > n the value written is 2^256 + n - s (the difference wrapped around),
\* which is > n/2.
C18_ExactBelowOrder ==
    (ScalarHigh /\ Len(normalized) >= 1) =>
        IF BytesLess(SHalf(input), OrderBytes) THEN ExactLowS
        ELSE IF SHalf(input) = OrderBytes THEN SHalf(normalized[1]) = ZeroBytes
        ELSE /\ AddBytes(SHalf(normalized[1]), SHalf(input)) = <<1>> \o OrderBytes
             /\ BytesLess(HalfOrderBytes, SHalf(normalized[1]))

C18_Witness ==
    /\ ScalarHigh
    /\ SHalf(input) = <<200>> \o Rep(7, 31)
    /\ Len(normalized) >= 1
    /\ SHalf(normalized[1]) # SHalf(input)
    /\ ExactLowS

\* s > n/2 for the s half of a 64-byte array x
HighOf(x) == Len(x) = 64 /\ BytesLess(HalfOrderBytes, SHalf(x))

\* 0 < s <= n/2 for the s half of a 64-byte array x
ValidLowOf(x) ==
    /\ Len(x) = 64
    /\ BytesLess(ZeroBytes, SHalf(x))
    /\ BytesLessEq(SHalf(x), HalfOrderBytes)

\* C19 (predicate definitions): isHighS(x) is false for a length other than
\* 64 and otherwise is s > n/2; isValidLowS(x) is true exactly for length 64
\* and 0 < s <= n/2; so isValidLowS(x) implies not isHighS(x), and the two are
\* complements except for a length other than 64 and for s = 0.
C19_PredicateDefinitions ==
    /\ \A v \in verdicts :
          /\ v.fn = "isHighS" => (v.value <=> HighOf(Result(v.of)))
          /\ v.fn = "isValidLowS" => (v.value <=> ValidLowOf(Result(v.of)))
    /\ \A h \in verdicts, l \in verdicts :
          (h.fn = "isHighS" /\ l.fn = "isValidLowS" /\ h.of = l.of) =>
              /\ l.value => ~h.value
              /\ (l.value = h.value) <=>
                    \/ Len(Result(h.of)) # 64
                    \/ SHalf(Result(h.of)) = ZeroBytes

C19_Witness ==
    /\ Is64
    /\ SHalf(input) = ZeroBytes
    /\ [fn |-> "isHighS", of |-> 0, value |-> FALSE] \in verdicts
    /\ [fn |-> "isValidLowS", of |-> 0, value |-> FALSE] \in verdicts

---------------------------------------------------------------------------
\* Claims about patchedSignMessage (MsgSpec).

\* The bytes the signature field of a result decodes to (<<>> when it does not).
DecodedSignature(result) ==
    IF result.t \in {"null", "undefined"} THEN <<>>
    ELSE LET decoded == atob(String(Member(result, <<"s", "i", "g", "n", "a", "t",
                                                     "u", "r", "e">>)))
         IN IF decoded.threw THEN <<>> ELSE Uint8ArrayFrom(decoded.v)

\* wallet.signMessage resolved with a signature of 64 bytes with s > n/2.
RemoteHighS == remote.state = "resolved" /\ HighOf(DecodedSignature(remote.v))

\* C20 (message-signing path): wallet.signMessage is called exactly once per
\* invocation and its rejection reaches the caller; for a decoded signature of
\* 64 bytes with high S the returned signature decodes to the same r and to
\* s' = n - s, with signedPayload unchanged; otherwise the remote result is
\* returned unchanged.
C20_MessagePath ==
    /\ signCalls = IF msgPc = "idle" THEN <<>> ELSE <<msgText>>
    /\ remote.state = "rejected" => msgOutcome = [kind |-> "threw", v |-> remote.v]
    /\ remote.state = "resolved" =>
          /\ msgOutcome.kind = "returned"
          /\ IF RemoteHighS
             THEN /\ Len(DecodedSignature(msgOutcome.v)) = 64
                  /\ RHalf(DecodedSignature(msgOutcome.v)) = RHalf(DecodedSignature(remote.v))
                  /\ SumsTo(SHalf(DecodedSignature(msgOutcome.v)),
                            SHalf(DecodedSignature(remote.v)), OrderBytes)
                  /\ Member(msgOutcome.v, <<"s", "i", "g", "n", "e", "d", "P", "a",
                                            "y", "l", "o", "a", "d">>)
                        = Member(remote.v, <<"s", "i", "g", "n", "e", "d", "P", "a",
                                             "y", "l", "o", "a", "d">>)
             ELSE msgOutcome.v = remote.v

---------------------------------------------------------------------------
\* Claims about error propagation (CoreSpec, MsgSpec).

\* Reading or decoding the signature of the remote result throws.
NormalizationFails(result) ==
    \/ result.t \in {"null", "undefined"}
    \/ atob(String(Member(result, <<"s", "i", "g", "n", "a", "t", "u", "r", "e">>))).threw

\* The last attempt of a finished patchedSignAndSendTransaction ended in an error:
\* a timeout, a rejection, or a result no signature can be extracted from.
LastAttemptFailed ==
    /\ pc = "done"
    /\ \/ attempts[Len(attempts)].race = "timer"
       \/ attempts[Len(attempts)].op = "rejected"
       \/ Unextractable(attempts[Len(attempts)].v)

FailedToNormalize ==
    <<"F", "a", "i", "l", "e", "d", " ", "t", "o", " ", "n", "o", "r", "m", "a", "l",
      "i", "z", "e", " ", "s", "i", "g", "n", "a", "t", "u", "r", "e">>

C26_FailLoudVariant ==
    (remote.state = "resolved" /\ NormalizationFails(remote.v)) =>
        IF variant = "part_009"
        THEN /\ msgOutcome.kind = "threw"
             /\ msgOutcome.v.t = "Error"
             /\ SubSeq(msgOutcome.v.s, 1, Len(FailedToNormalize)) = FailedToNormalize
        ELSE msgOutcome = [kind |-> "returned", v |-> remote.v]

C26_Witness ==
    /\ variant = "part_009"
    /\ remote = [state |-> "resolved", v |-> WireResult(<<"Q", "U", "J", "D", "=">>, JsString(<<>>))]
    /\ msgOutcome.kind = "threw"
    /\ msgOutcome.v = NormalizeFailed

---------------------------------------------------------------------------
\* C22 (immutability of the input): the caller's array holds the bytes it held
\* before the calls, every array a call returned still holds the bytes it was
\* returned with, and a call that rewrote s returned a newly created 64-byte
\* array.
C22_InputImmutable ==
    /\ heap[1] = input
    /\ \A k \in 1..Len(refs) :
          /\ heap[refs[k]] = normalized[k]
          /\ normalized[k] # heap[Ref(k - 1)] =>
                /\ Len(normalized[k]) = 64
                /\ refs[k] # 1
                /\ \A j \in 1..(k - 1) : refs[j] # refs[k]

C22_Witness ==
    /\ Is64
    /\ BytesLess(HalfOrderBytes, SHalf(input))
    /\ Len(refs) >= 1
    /\ refs[1] = 2
    /\ heap[2] # input
    /\ heap[1] = input
    /\ [fn |-> "isHighS", of |-> 0, value |-> TRUE] \in verdicts

---------------------------------------------------------------------------
\* Claims about the retry loop (Spec).

RECURSIVE Schedule(_)
\* baseDelay * 2^(n-1), by doubling
Schedule(n) == IF n = 1 THEN BASE_DELAY_MS ELSE 2 * Schedule(n - 1)

\* C23 (backoff schedule): every sleep follows a rate-limit rejection of an
\* attempt n < MAX_RETRIES, starts when that attempt ended, lasts exactly
\* BASE_DELAY_MS * 2^(n-1), uncapped, and attempt n + 1 starts when it ends.
C23_BackoffSchedule ==
    \A i \in 1..Len(sleeps) :
        LET n == sleeps[i].after
        IN /\ n \in 1..(MAX_RETRIES - 1)
           /\ n <= Len(attempts)
           /\ RejectedRateLimit(n)
           /\ sleeps[i].from = attempts[n].raceAt
           /\ sleeps[i].delay = Schedule(n)
           /\ now <= sleeps[i].from + sleeps[i].delay \/ Len(attempts) > n
           /\ Len(attempts) > n => attempts[n + 1].start = sleeps[i].from + Schedule(n)

C23_Witness ==
    /\ Len(sleeps) = 2
    /\ sleeps[2].after = 2
    /\ sleeps[2].delay = 2 * BASE_DELAY_MS
    /\ Len(attempts) = 3
    /\ attempts[3].start = attempts[2].raceAt + 2 * BASE_DELAY_MS

Fold(c) == IF c \in Range(UPPER) THEN LOWER[CHOOSE k \in 1..Len(UPPER) : UPPER[k] = c] ELSE c

\* text contains marker, compared case-insensitively (marker is lower case)
ContainsIgnoringCase(text, marker) ==
    \E i \in 0..(Len(text) - Len(marker)) : \A j \in 1..Len(marker) : Fold(text[i + j]) = marker[j]

RateLimitMarkers ==
    { <<"4", "2", "9">>, <<"r", "a", "t", "e", " ", "l", "i", "m", "i", "t">>, <<"t", "o", "o", " ", "m", "a", "n", "y", " ", "r",
                                 "e", "q", "u", "e", "s", "t", "s">>, <<"t", "h", "r", "o", "t", "t",
                                                        "l">> }

HasMarker(text) == \E marker \in RateLimitMarkers : ContainsIgnoringCase(text, marker)

\* The rejection carries a message: an Error, or an object with a string `message`.
HasMessage(v) ==
    \/ v.t = "Error"
    \/ HasProp(v, <<"m", "e", "s", "s", "a", "g", "e">>) /\ GetProp(v, <<"m", "e", "s", "s", "a", "g", "e">>).t = "string"

MessageOf(v) == IF v.t = "Error" THEN v.s ELSE GetProp(v, <<"m", "e", "s", "s", "a", "g",
                                                            "e">>).s

\* Attempt k ended in an error the wrapper itself produced: the timeout, or an
\* extraction error for a value resolved inside the race.
FailedByWrapper(k) ==
    \/ attempts[k].race = "timer"
    \/ ResolvedInRace(k) /\ Unextractable(attempts[k].v)

\* Attempt k was treated as retryable: a backoff sleep followed it.
Retried(k) == ~NoSleepAfter(k)

\* C25 as stated: a rejection (before the last permitted attempt) is retried
\* exactly when its message contains one of the four markers, compared
\* case-insensitively; the wrapper's own errors are never retried nor reported
\* as rate limiting.
C25_MarkerClassification ==
    \A k \in 1..Len(attempts) :
        /\ (RaceWonByOp(k) /\ attempts[k].op = "rejected" /\ HasMessage(attempts[k].v)
                /\ k < MAX_RETRIES)
              => (Retried(k) <=> HasMarker(MessageOf(attempts[k].v)))
        /\ FailedByWrapper(k) =>
              /\ ~Retried(k)
              /\ pc = "done" /\ k = Len(attempts) /\ outcome.kind = "threw"
              /\ ~IsThrottlingError(outcome.v)

\* C25 (amended): a rejection is retried exactly when it is an Error instance
\* whose message contains one of the four markers, compared case-insensitively;
\* a rejection that is not an Error instance is never retried, whatever message
\* or text it carries; the wrapper's own errors are never retried nor reported
\* as rate limiting.
C25_ErrorMarkerClassification ==
    \A k \in 1..Len(attempts) :
        /\ (RaceWonByOp(k) /\ attempts[k].op = "rejected" /\ k < MAX_RETRIES)
              => (Retried(k) <=> (attempts[k].v.t = "Error" /\ HasMarker(attempts[k].v.s)))
        /\ (RaceWonByOp(k) /\ attempts[k].op = "rejected" /\ k = MAX_RETRIES
                /\ pc = "done" /\ attempts[k].v.t = "Error")
              => (IsThrottlingError(outcome.v) <=> HasMarker(attempts[k].v.s))
        /\ FailedByWrapper(k) =>
              /\ ~Retried(k)
              /\ pc = "done" /\ k = Len(attempts) /\ outcome.kind = "threw"
              /\ ~IsThrottlingError(outcome.v)

C25_Witness ==
    /\ pc = "done"
    /\ Len(attempts) = 2
    /\ RaceWonByOp(1)
    /\ attempts[1].v = [t |-> "Error", s |-> <<"T", "o", "o", " ", "M", "a", "n", "y",
                                               " ", "R", "e", "q", "u", "e", "s", "t",
                                               "s", ",", " ", "s", "l", "o", "w", " ",
                                               "d", "o", "w", "n">>, f |-> <<>>,
                        id |-> "op"]
    /\ Retried(1)
    /\ RaceWonByOp(2)
    /\ attempts[2].op = "rejected"
    /\ attempts[2].v = JsObject(<<Prop(<<"m", "e", "s", "s", "a", "g", "e">>, JsString(<<"4", "2", "9", " ", "T", "o",
                                                               "o", " ", "M", "a", "n", "y",
                                                               " ", "R", "e", "q", "u", "e",
                                                               "s", "t", "s">>))>>)
    /\ ~Retried(2)

\* Attempt k ended, inside its race, in a rejection by the wrapped operation
\* with an Error whose message carries a rate-limit marker.
RateLimited(k) ==
    /\ RaceWonByOp(k)
    /\ attempts[k].op = "rejected"
    /\ attempts[k].v.t = "Error"
    /\ HasMarker(attempts[k].v.s)

\* C27 (retry causality): every attempt but the last ended in a rate-limit
\* rejection of the wrapped operation itself; once the invocation has ended
\* the sleeps are one fewer than the attempts, one after each attempt but the
\* last, and none follows the final attempt.
C27_RetryCausality ==
    /\ \A k \in 1..(Len(attempts) - 1) : RateLimited(k) /\ Retried(k)
    /\ \A i \in 1..Len(sleeps) : sleeps[i].after = i
    /\ pc = "sleeping" => Len(sleeps) = Len(attempts)
    /\ pc \in {"racing", "done"} => Len(sleeps) = Len(attempts) - 1
    /\ pc = "done" => NoSleepAfter(Len(attempts))

C27_Witness ==
    /\ pc = "done"
    /\ Len(attempts) = 3
    /\ Len(sleeps) = 2
    /\ RateLimited(1)
    /\ RateLimited(2)
    /\ ResolvedInRace(3)
    /\ Unextractable(attempts[3].v)

\* C28 (non-Error rejections): a rejection of the wrapped operation with a
\* value that is not an Error instance is never retried, whatever its text:
\* its attempt is the last one and the invocation ends with it by throwing.
C28_NonErrorNeverRetried ==
    \A k \in 1..Len(attempts) :
        (RaceWonByOp(k) /\ attempts[k].op = "rejected" /\ attempts[k].v.t # "Error")
            => /\ ~Retried(k)
               /\ ThrewFrom(k)

C28_Witness ==
    /\ Len(attempts) = 1
    /\ RaceWonByOp(1)
    /\ attempts[1].op = "rejected"
    /\ attempts[1].v = JsString(<<"4", "2", "9", " ", "T", "o", "o", " ", "M", "a",
                                  "n", "y", " ", "R", "e", "q", "u", "e", "s", "t",
                                  "s">>)
    /\ ThrewFrom(1)
    /\ sleeps = <<>>

---------------------------------------------------------------------------
\* The bytes passed to the k-th call of normalizeSignature.
Argument(k) == IF k = 1 THEN input ELSE normalized[k - 1]

\* The signature bytes patchedSignMessage returns for a remote result that
\* carries the caller's array in the wire encoding.
PatchedBytes(payload) ==
    DecodedSignature(Patched(WireResult(btoa(FromCharCodes(input)), payload)))

\* C29 (guard equivalence): a call of normalizeSignature returns bytes that
\* differ from its argument exactly when isHighS of the argument is true, for
\* arrays of every length; so patchedSignMessage, which normalizes under the
\* isHighS guard, returns the signature bytes normalizeSignature gives.
C29_GuardEquivalence ==
    /\ \A k \in 1..Len(normalized) :
          /\ (normalized[k] # Argument(k)) <=> HighOf(Argument(k))
          /\ \A v \in verdicts :
                (v.fn = "isHighS" /\ v.of = k - 1) =>
                    (v.value <=> normalized[k] # Argument(k))
    /\ Len(normalized) >= 1 => \A payload \in Payloads : PatchedBytes(payload) = normalized[1]

C29_Witness ==
    /\ Is64
    /\ SHalf(input) = OrderBytes
    /\ Len(normalized) = 2
    /\ normalized[1] # input
    /\ normalized[2] = normalized[1]
    /\ [fn |-> "isHighS", of |-> 0, value |-> TRUE] \in verdicts
    /\ [fn |-> "isHighS", of |-> 1, value |-> FALSE] \in verdicts
    /\ PatchedBytes(JsString(<<>>)) = normalized[1]

\* ---- useSolanaBalance --------------------------------------------------------

RefreshTimers == {t \in balanceTimers : t.kind = "refresh"}

\* A refresh fetch that will return: it is not waiting on a retry timer that was cleared.
WillReturn(f) ==
    f.awaiting = "delay" => \E t \in balanceTimers : t.kind = "retry" /\ t.fetch = f.id

\* In-flight refresh fetches whose .then callback will call startRefreshLoop again.
ReschedulingFetches ==
    {f \in fetches : f.chained /\ WillReturn(f) /\ closures[f.effect].autoRefresh}

AliveChains == RefreshTimers \cup ReschedulingFetches

\* C30: while the instance is mounted at most one auto-refresh chain is alive
\* (a pending refresh timer or an in-flight refresh fetch that will reschedule
\* itself), every pending refresh timer was scheduled by the current run of the
\* effect, and no refresh fetch has written a balance fetched for another
\* publicKey than the one rendered at the time of the write.
C30_SingleRefreshLoop ==
    isMounted =>
        /\ Cardinality(AliveChains) <= 1
        /\ \A t \in RefreshTimers : t.effect = Len(closures)
        /\ lastWrite.chained => lastWrite.fetchedFor = lastWrite.publicKey
====
